---- MODULE Spec2Model ----
(***************************************************************************)
(* Editor state store (editorStore), the useEditorState hook, the          *)
(* editor-side IframeBridge and the preview-side ClientEditorBridge of     *)
(* adobbs/site-editor, as one state machine.                               *)
(*                                                                         *)
(* Abstractions: Date.now() timestamps and random ids are not part of the  *)
(* modelled records (a stamped envelope carries a non-empty messageId and  *)
(* a non-zero timestamp); log output is omitted; a React effect runs with  *)
(* the commit of the store update that triggers it.                        *)
(***************************************************************************)
EXTENDS Integers, Sequences, FiniteSets, TLC

\* ---------------------------------------------------------------- bounds
NumElements == 2          \* content blocks of the previewed page
MaxChanges == 2           \* changes recorded by the store in one run
MaxInFlight == 2          \* messages queued in the bridge or travelling, in total
MaxSends == 3             \* sendToIframe calls of a client of the bridge taken alone
MaxActions == 5           \* actions of the user at the overlay and in the previewed page

Elements == 1..NumElements
Texts == {"a", "b"}       \* non-empty text values a user types
EmptyText == ""           \* the '' fallback of the hook and the store

\* ---------------------------------------------------------------- state
VARIABLES
  store,        \* editorStore.state
  bridge,       \* the IframeBridge singleton
  toFrame,      \* messages posted to the frame window, not yet handled
  toEditor,     \* message events posted to the editor window, not yet handled
  agent,        \* the ClientEditorBridge inside the previewed page
  dom,          \* the content blocks of the previewed page
  net,          \* requests to the persistence API that are awaiting a response
  ui,           \* which React components are mounted (their effects have run)
  lastOp,       \* history variable: the operation performed by the last step
  track,        \* history variable: the run of changes since the store was last reset
  nChanges,     \* history variable: changes recorded so far (bounds the run)
  sentLog,      \* history variable: the sendToIframe calls of the bridge's client, in order
  nActions      \* history variable: the user's actions so far where a run of them is bounded

vars == <<store, bridge, toFrame, toEditor, agent, dom, net, ui, lastOp, track, nChanges,
          sentLog, nActions>>

\* ------------------------------------------------------- JavaScript bits
\* `x || y` and `!x` treat '' and null as falsy (the modelled content values are strings).
Null == "null"
Falsy(v) == v \in {"", Null}

EmptyMap == [x \in {} |-> x]
Has(m, k) == k \in DOMAIN m
MapSet(m, k, v) == [x \in (DOMAIN m) \cup {k} |-> IF x = k THEN v ELSE m[x]]

Last(s) == s[Len(s)]
Front(s) == SubSeq(s, 1, Len(s) - 1)

\* ------------------------------------------------------------ the store
EmptyHistory == [past |-> <<>>, present |-> <<>>, future |-> <<>>]

initialState ==
  [ siteId |-> "null",
    draftChanges |-> EmptyMap,
    originalContent |-> EmptyMap,
    publishedContent |-> EmptyMap,
    history |-> EmptyHistory,
    isSaving |-> FALSE,
    isExecutingCommand |-> FALSE,
    selectedElement |-> "null",
    editingMode |-> "edit",
    iframeReady |-> FALSE,
    lastSavedAt |-> 0,
    isLoadingDrafts |-> FALSE,
    hasUnsavedEdits |-> FALSE,
    hasUnpublishedChanges |-> FALSE ]

\* A ContentUpdate (timestamp and image metadata left out).
ContentUpdate(e, t, old, new) ==
  [elementId |-> e, type |-> t, oldValue |-> old, newValue |-> new]

\* The EditorChange that addContentChange builds from a ContentUpdate.
EditorChange(update) ==
  [ elementId |-> update.elementId, type |-> update.type,
    oldValue |-> update.oldValue, newValue |-> update.newValue,
    scopeName |-> update.elementId ]

\* variant: the (empty) present of a store without changes is not archived
PushHistorySkipEmpty(h, entry) ==
  [past |-> IF h.present = <<>> THEN h.past ELSE Append(h.past, h.present),
   present |-> entry, future |-> <<>>]

\* variant: the redo branch survives a new entry
PushHistoryKeepFuture(h, entry) ==
  [past |-> Append(h.past, h.present), present |-> entry, future |-> h.future]

\* history after a new entry is pushed
PushHistory(h, entry) ==
  [past |-> Append(h.past, h.present), present |-> entry, future |-> <<>>]

\* variant: every change sets the baseline of its element anew
addContentChangeReseeds(s, update) ==
  LET e == update.elementId
      updatedChange ==
        [update EXCEPT !.oldValue =
           IF Has(s.publishedContent, e) /\ ~Falsy(s.publishedContent[e])
           THEN s.publishedContent[e] ELSE update.oldValue]
  IN [s EXCEPT
        !.draftChanges = MapSet(s.draftChanges, e, updatedChange),
        !.originalContent = MapSet(s.originalContent, e, update.oldValue),
        !.publishedContent = MapSet(s.publishedContent, e, update.oldValue),
        !.history = PushHistory(s.history, <<EditorChange(update)>>),
        !.hasUnsavedEdits = TRUE,
        !.hasUnpublishedChanges = TRUE]

addContentChange(s, update) ==
  LET e == update.elementId
      newOriginalContent ==
        IF Has(s.originalContent, e) THEN s.originalContent
        ELSE MapSet(s.originalContent, e, update.oldValue)
      newPublishedContent ==
        IF Has(s.publishedContent, e) THEN s.publishedContent
        ELSE MapSet(s.publishedContent, e, update.oldValue)
      updatedChange ==
        [update EXCEPT !.oldValue =
           IF Has(s.publishedContent, e) /\ ~Falsy(s.publishedContent[e])
           THEN s.publishedContent[e] ELSE update.oldValue]
  IN [s EXCEPT
        !.draftChanges = MapSet(s.draftChanges, e, updatedChange),
        !.originalContent = newOriginalContent,
        !.publishedContent = newPublishedContent,
        !.history = PushHistory(s.history, <<EditorChange(update)>>),
        !.hasUnsavedEdits = TRUE,
        !.hasUnpublishedChanges = TRUE]

\* addBatchChanges: the drafts of all updates are set, in order, and one
\* history entry holds their changes; no flag and no baseline map is touched
RECURSIVE batchDrafts(_, _)
batchDrafts(drafts, updates) ==
  IF updates = <<>> THEN drafts
  ELSE batchDrafts(MapSet(drafts, Head(updates).elementId, Head(updates)), Tail(updates))

addBatchChanges(s, updates) ==
  [s EXCEPT
     !.draftChanges = batchDrafts(s.draftChanges, updates),
     !.history = PushHistory(s.history, [i \in 1..Len(updates) |-> EditorChange(updates[i])])]

\* clearEditor: wipe the three maps and the history, clear both change flags
clearEditor(s) ==
  [s EXCEPT
     !.draftChanges = EmptyMap, !.originalContent = EmptyMap,
     !.publishedContent = EmptyMap, !.history = EmptyHistory,
     !.hasUnsavedEdits = FALSE, !.hasUnpublishedChanges = FALSE]

initializeEditor(s, siteId) ==
  [s EXCEPT
     !.siteId = siteId,
     !.draftChanges = EmptyMap, !.originalContent = EmptyMap,
     !.publishedContent = EmptyMap, !.history = EmptyHistory,
     !.selectedElement = "null", !.iframeReady = FALSE,
     !.lastSavedAt = 0, !.isLoadingDrafts = FALSE,
     !.hasUnsavedEdits = FALSE, !.hasUnpublishedChanges = FALSE]

\* variant: a save also counts as a publication
markDraftsSavedClearsBoth(s) ==
  [s EXCEPT !.lastSavedAt = 1, !.hasUnsavedEdits = FALSE, !.hasUnpublishedChanges = FALSE]

\* variant: a save only stamps the time
markDraftsSavedStampOnly(s) ==
  [s EXCEPT !.lastSavedAt = 1]

\* markDraftsSaved: lastSavedAt := Date.now() (0 is null, 1 a time)
markDraftsSaved(s) ==
  [s EXCEPT !.lastSavedAt = 1, !.hasUnsavedEdits = FALSE]

\* variant: publishing also empties the Draft map
markDraftsPublishedDropsDrafts(s) ==
  [s EXCEPT
     !.publishedContent =
        [e \in (DOMAIN s.publishedContent) \cup (DOMAIN s.draftChanges) |->
           IF Has(s.draftChanges, e) THEN s.draftChanges[e].newValue
           ELSE s.publishedContent[e]],
     !.draftChanges = EmptyMap,
     !.hasUnpublishedChanges = FALSE]

markDraftsPublished(s) ==
  [s EXCEPT
     !.publishedContent =
        [e \in (DOMAIN s.publishedContent) \cup (DOMAIN s.draftChanges) |->
           IF Has(s.draftChanges, e) THEN s.draftChanges[e].newValue
           ELSE s.publishedContent[e]],
     !.hasUnpublishedChanges = FALSE]

setSavingState(s, isSaving) == [s EXCEPT !.isSaving = isSaving]

useCanUndo(s) == Len(s.history.past) > 0 /\ ~s.isExecutingCommand

\* variant: the redo selector reads the past
useCanRedoPast(s) == Len(s.history.past) > 0 /\ ~s.isExecutingCommand

useCanRedo(s) == Len(s.history.future) > 0 /\ ~s.isExecutingCommand

\* ------------------------------------------------------- loadDraftContent
MaxSaves == 1             \* save requests awaiting the persistence API

\* A block of the content file as the persistence API returns it: a string, or
\* an object (here one that carries the fields of a DraftContentBlock).
StringValue(t) ==
  [isString |-> TRUE, text |-> t, publishedValue |-> Null, draftValue |-> Null,
   hasUnpublishedChanges |-> FALSE, status |-> "published"]
ObjectValue(publishedValue, draftValue, hasUnpublishedChanges, status) ==
  [isString |-> FALSE, text |-> "", publishedValue |-> publishedValue,
   draftValue |-> draftValue, hasUnpublishedChanges |-> hasUnpublishedChanges,
   status |-> status]

JSONstringify(value) ==
  "{publishedValue:" \o value.publishedValue \o ",draftValue:" \o value.draftValue
  \o ",hasUnpublishedChanges:" \o (IF value.hasUnpublishedChanges THEN "true" ELSE "false")
  \o ",status:" \o value.status \o "}"

\* typeof value === 'string' ? value : JSON.stringify(value)
valueText(value) == IF value.isString THEN value.text ELSE JSONstringify(value)

\* the DraftContentBlock that loadDraftContent builds from a block of site.json
convertBlock(value) ==
  [value |-> valueText(value), publishedValue |-> valueText(value), draftValue |-> Null,
   status |-> "published", hasUnpublishedChanges |-> FALSE]

\* 'Only load blocks that have draft changes or unpublished content'
imported(block) == block.hasUnpublishedChanges \/ block.status = "draft"

importOldValue(block) ==
  IF ~Falsy(block.publishedValue) /\ ~Falsy(block.draftValue) THEN block.publishedValue
  ELSE IF ~Falsy(block.draftValue) /\ Falsy(block.publishedValue) THEN EmptyText
  ELSE IF block.status = "published" THEN block.value ELSE EmptyText

importNewValue(block) ==
  IF ~Falsy(block.draftValue) THEN block.draftValue ELSE block.value

\* publishedValue || ''
orEmpty(v) == IF Falsy(v) THEN EmptyText ELSE v

importedKeys(blocks) == {k \in DOMAIN blocks : imported(blocks[k])}

\* the setState at the end of a successful load
loadSucceeded(s, blocks, lastUpdated) ==
  LET keys == importedKeys(blocks)
  IN [s EXCEPT
        !.draftChanges =
           [k \in keys |-> ContentUpdate(k, "text", importOldValue(blocks[k]),
                                         importNewValue(blocks[k]))],
        !.originalContent = [k \in keys |-> orEmpty(blocks[k].publishedValue)],
        !.publishedContent = [k \in keys |-> orEmpty(blocks[k].publishedValue)],
        !.isLoadingDrafts = FALSE,
        !.lastSavedAt = lastUpdated,
        !.hasUnsavedEdits = FALSE,
        !.hasUnpublishedChanges = (Cardinality(keys) > 0)]

\* -------------------------------------------------------------- messages
EditorOrigin == "http://localhost:3000"
FrameOrigin == "http://localhost:3001"
ForeignOrigin == "http://evil.example"

NoElement == 0              \* payload.elementId absent
Undefined == "undefined"    \* a payload field that is absent

\* payload: elementId, content (content / newContent), oldContent, type.
Payload(e, content, cause) ==
  [elementId |-> e, content |-> content, oldContent |-> Undefined,
   type |-> Undefined, cause |-> cause]
NoPayload == Payload(NoElement, Undefined, "none")

\* The envelope { type, messageId, timestamp, payload }.  The field cause of
\* the payload is a history tag: the operation that issued the command.
Envelope(type, messageId, timestamp, payload) ==
  [type |-> type, messageId |-> messageId, timestamp |-> timestamp, payload |-> payload]

Event(origin, data) == [origin |-> origin, data |-> data]

UpdateContent(e, content, cause) ==
  [type |-> "UPDATE_CONTENT", payload |-> Payload(e, content, cause)]

\* ------------------------------------------------------- the IframeBridge
NewBridge ==
  [ messageHandlers |-> EmptyMap,
    allowedOrigins |-> {},
    messageQueue |-> <<>>,
    iframeRef |-> FALSE,          \* TRUE: a ref whose iframe has a contentWindow
    isReady |-> FALSE,
    isInitialized |-> TRUE ]      \* constructed in the browser

\* The result of a bridge method that may post: the bridge and the channel.
BC(b, ch) == [bridge |-> b, toFrame |-> ch]

\* variant: the queue is emptied from its end (Array.pop)
PopQueue(q) == [message |-> Last(q), rest |-> Front(q)]

\* flushMessageQueue takes from the front (Array.shift)
ShiftQueue(q) == [message |-> Head(q), rest |-> Tail(q)]

sendMessage(b, ch, message) ==
  IF ~b.iframeRef THEN ch      \* 'Iframe not available for messaging': dropped
  ELSE Append(ch, Event(EditorOrigin, message))

\* variant: the flush posts the queued messages and keeps them queued
flushMessageQueueKeeps(b, ch) ==
  BC(b, IF ~b.iframeRef THEN ch
        ELSE ch \o [i \in 1..Len(b.messageQueue) |-> Event(EditorOrigin, b.messageQueue[i])])

RECURSIVE flushMessageQueue(_, _)
flushMessageQueue(b, ch) ==
  IF Len(b.messageQueue) = 0 THEN BC(b, ch)
  ELSE LET sh == ShiftQueue(b.messageQueue)
       IN flushMessageQueue([b EXCEPT !.messageQueue = sh.rest],
                            sendMessage(b, ch, sh.message))

\* sendToIframe stamps the message, then queues or posts it
sendToIframe(b, ch, message, messageId) ==
  IF ~b.isInitialized THEN BC(b, ch)
  ELSE LET fullMessage == Envelope(message.type, messageId, 1, message.payload)
       IN IF ~b.isReady
          THEN BC([b EXCEPT !.messageQueue = Append(b.messageQueue, fullMessage)], ch)
          ELSE BC(b, sendMessage(b, ch, fullMessage))

\* a sequence of sendToIframe calls, in order
RECURSIVE sendAll(_, _, _)
sendAll(b, ch, messages) ==
  IF messages = <<>> THEN BC(b, ch)
  ELSE LET r == sendToIframe(b, ch, Head(messages), "msg")
       IN sendAll(r.bridge, r.toFrame, Tail(messages))

\* variant: the first registration for a type stays
onKeepsFirst(b, messageType, handler) ==
  IF Has(b.messageHandlers, messageType) THEN b
  ELSE [b EXCEPT !.messageHandlers = MapSet(b.messageHandlers, messageType, handler)]

on(b, messageType, handler) ==
  [b EXCEPT !.messageHandlers = MapSet(b.messageHandlers, messageType, handler)]

off(b, messageType) ==
  [b EXCEPT !.messageHandlers =
     [t \in (DOMAIN b.messageHandlers) \ {messageType} |-> b.messageHandlers[t]]]

setAllowedOrigins(b, origins) == [b EXCEPT !.allowedOrigins = origins]
setIframeRef(b, ref) == [b EXCEPT !.iframeRef = ref]
destroy(b) ==
  [b EXCEPT !.messageHandlers = EmptyMap, !.messageQueue = <<>>, !.isReady = FALSE]

\* variant: the origin check passes while no message has been accepted yet
OriginAllowedUntilReady(b, origin) ==
  ~(b.isReady /\ Cardinality(b.allowedOrigins) > 0 /\ origin \notin b.allowedOrigins)

\* variant: the structure check looks at the type alone
ValidStructureTypeOnly(message) == ~Falsy(message.type)

\* The listener's checks before dispatch.
OriginAllowed(b, origin) ==
  ~(Cardinality(b.allowedOrigins) > 0 /\ origin \notin b.allowedOrigins)
ValidStructure(message) ==
  ~(Falsy(message.type) \/ Falsy(message.messageId) \/ message.timestamp = 0)
Accepted(b, ev) == OriginAllowed(b, ev.origin) /\ ValidStructure(ev.data)

\* The handler the listener calls for an event, "none" when it calls none.
HandlerFor(b, ev) ==
  IF Accepted(b, ev) /\ Has(b.messageHandlers, ev.data.type)
  THEN b.messageHandlers[ev.data.type] ELSE "none"

\* How the listener ends: it returns; what is thrown inside its try block (a
\* read of a field of null data) is caught and logged there.
listenerError(b, ev) ==
  IF OriginAllowed(b, ev.origin) /\ ev.data.type = Null THEN "caught" ELSE "none"

\* The bridge's own part of the listener: readiness and the flush.
listenerBridge(b, ch, ev) ==
  IF Accepted(b, ev) /\ ev.data.type = "IFRAME_READY"
  THEN flushMessageQueue([b EXCEPT !.isReady = TRUE], ch)
  ELSE BC(b, ch)

\* ------------------------------------------------- the useEditorState hook
RECURSIVE Reverse(_)
Reverse(sq) == IF sq = <<>> THEN <<>> ELSE Append(Reverse(Tail(sq)), Head(sq))

\* variant: undo sends in the order of the entry
undoMessagesForward(entry) ==
  [i \in 1..Len(entry) |-> UpdateContent(entry[i].elementId, entry[i].oldValue, "undo")]

\* undo: one UPDATE_CONTENT per change of the present entry, last change first
undoMessages(entry) ==
  [i \in 1..Len(entry) |->
     UpdateContent(Reverse(entry)[i].elementId, Reverse(entry)[i].oldValue, "undo")]

\* redo: one UPDATE_CONTENT per change of the next entry, in order
redoMessages(entry) ==
  [i \in 1..Len(entry) |->
     UpdateContent(entry[i].elementId, entry[i].newValue, "redo")]

\* variant: undo drops the draft of every change it reverts
RECURSIVE undoDraftsRemoves(_, _)
undoDraftsRemoves(drafts, entry) ==
  IF entry = <<>> THEN drafts
  ELSE undoDraftsRemoves([e \in (DOMAIN drafts) \ {Head(entry).elementId} |-> drafts[e]],
                         Tail(entry))

\* undo's forEach over the present entry: revert the draft values
RECURSIVE undoDrafts(_, _)
undoDrafts(drafts, entry) ==
  IF entry = <<>> THEN drafts
  ELSE LET change == Head(entry)
           next == IF Has(drafts, change.elementId)
                   THEN [drafts EXCEPT ![change.elementId].newValue = change.oldValue]
                   ELSE drafts
       IN undoDrafts(next, Tail(entry))

\* variant: redo leaves the value of a draft that exists
RECURSIVE redoDraftsMissingOnly(_, _)
redoDraftsMissingOnly(drafts, entry) ==
  IF entry = <<>> THEN drafts
  ELSE LET change == Head(entry)
           next == IF Has(drafts, change.elementId) THEN drafts
                   ELSE MapSet(drafts, change.elementId,
                               ContentUpdate(change.elementId, change.type,
                                             change.oldValue, change.newValue))
       IN redoDraftsMissingOnly(next, Tail(entry))

\* redo's forEach over the next entry: re-apply, creating missing drafts
RECURSIVE redoDrafts(_, _)
redoDrafts(drafts, entry) ==
  IF entry = <<>> THEN drafts
  ELSE LET change == Head(entry)
           next == IF Has(drafts, change.elementId)
                   THEN [drafts EXCEPT ![change.elementId].newValue = change.newValue]
                   ELSE MapSet(drafts, change.elementId,
                               ContentUpdate(change.elementId, change.type,
                                             change.oldValue, change.newValue))
       IN redoDrafts(next, Tail(entry))

\* variant: undo takes the oldest archived entry
undoHistoryOldest(h) ==
  [past |-> Tail(h.past), present |-> Head(h.past), future |-> <<h.present>> \o h.future]

undoHistory(h) ==
  [past |-> Front(h.past), present |-> Last(h.past), future |-> <<h.present>> \o h.future]

\* variant: redo leaves the present entry where it is
redoHistoryKeepsPresent(h) ==
  [past |-> Append(h.past, h.present), present |-> h.present, future |-> Tail(h.future)]

redoHistory(h) ==
  [past |-> Append(h.past, h.present), present |-> Head(h.future), future |-> Tail(h.future)]

\* the store after undo ran to its end (isExecutingCommand set, then cleared)
undo(s) ==
  [s EXCEPT !.draftChanges = undoDrafts(s.draftChanges, s.history.present),
            !.history = undoHistory(s.history),
            !.isExecutingCommand = FALSE]

redo(s) ==
  [s EXCEPT !.draftChanges = redoDrafts(s.draftChanges, Head(s.history.future)),
            !.history = redoHistory(s.history),
            !.isExecutingCommand = FALSE]

\* A call of undo: the early return, or the messages handed to sendToIframe
\* and the store after the call.
undoCalled(s) ==
  IF Len(s.history.past) = 0 \/ s.isExecutingCommand
  THEN [ran |-> FALSE, store |-> s, sent |-> <<>>]
  ELSE [ran |-> TRUE, store |-> undo([s EXCEPT !.isExecutingCommand = TRUE]),
        sent |-> undoMessages(s.history.present)]

redoCalled(s) ==
  IF Len(s.history.future) = 0 \/ s.isExecutingCommand
  THEN [ran |-> FALSE, store |-> s, sent |-> <<>>]
  ELSE [ran |-> TRUE, store |-> redo([s EXCEPT !.isExecutingCommand = TRUE]),
        sent |-> redoMessages(Head(s.history.future))]

\* the old value the changeText wrapper of the hook passes on
currentValue(s, e) ==
  IF Has(s.draftChanges, e) THEN s.draftChanges[e].newValue ELSE EmptyText

\* handleContentChanged: the old value it settles on
actualOldValue(s, p) ==
  IF p.oldContent # Undefined THEN p.oldContent
  ELSE IF Has(s.draftChanges, p.elementId) THEN s.draftChanges[p.elementId].newValue
  ELSE EmptyText

contentChangedType(p) == IF p.type = Undefined THEN "text" ELSE p.type

\* handleContentChanged: does it reach an addContentChange call
contentChangedRecords(s, message) ==
  LET p == message.payload
  IN /\ ~s.isExecutingCommand
     /\ p.elementId # NoElement /\ p.content # Undefined
     /\ actualOldValue(s, p) # p.content
     /\ contentChangedType(p) \in {"text", "config", "toggle", "image"}

contentChangedUpdate(s, message) ==
  ContentUpdate(message.payload.elementId, contentChangedType(message.payload),
                actualOldValue(s, message.payload), message.payload.content)

handleContentChanged(s, message) ==
  IF contentChangedRecords(s, message)
  THEN addContentChange(s, contentChangedUpdate(s, message))
  ELSE s

\* variant: the recorded value is sent back to the frame
contentChangedEchoes(s, message) ==
  IF contentChangedRecords(s, message)
  THEN <<UpdateContent(message.payload.elementId, message.payload.content, "echo")>>
  ELSE <<>>

\* the commands handleContentChanged sends to the frame: it calls no method
\* of the bridge
contentChangedSends(s, message) == <<>>

\* ------------------------------------------- the preview-side agent
PageText == "o"             \* the text the page renders before any edit
PageSrc == "img"            \* the src the page renders its image with

\* Content values that are not strings, and what String() makes of them.
BoolValue == "<true>"
NumValue == "<7>"
TypeOf(v) ==
  CASE v = Undefined -> "undefined"
    [] v = BoolValue -> "boolean"
    [] v = NumValue -> "number"
    [] OTHER -> "string"
ToStr(v) ==
  CASE v = BoolValue -> "true"
    [] v = NumValue -> "7"
    [] OTHER -> v

\* The blocks of the template's page that carry data-editor-id: headings and
\* the button (text), the hero image (image, an IMG), the hidden toggle
\* indicator (toggle, without data-editable).
Kinds == {"text", "image", "toggle"}
ElementType(el) == el.kind
TagName(el) == CASE el.kind = "image" -> "IMG" [] el.kind = "text" -> "H1" [] OTHER -> "DIV"
IsEditable(el) == el.kind # "toggle"

PageElement(kind) ==
  [ kind |-> kind,
    textContent |-> IF kind = "image" THEN EmptyText ELSE PageText,
    src |-> IF kind = "image" THEN PageSrc ELSE EmptyText,
    selected |-> FALSE,          \* carries data-editor-selected
    title |-> FALSE,             \* title = 'Click to edit'
    contentEditable |-> FALSE ]

TextPage == [e \in Elements |-> PageElement("text")]

\* the editable blocks of the template's page in document order: the text
\* blocks, then the hero image
TemplatePage ==
  [e \in Elements |-> PageElement(IF e = NumElements THEN "image" ELSE "text")]

\* the elements that carry the selection marker
Marked(d) == {e \in DOMAIN d : d[e].selected}

NewAgent ==
  [ constructed |-> FALSE,       \* new ClientEditorBridge() has run
    embedded |-> TRUE,           \* window.parent !== window
    isInEditorMode |-> FALSE,
    editorOrigin |-> "null",
    selectedElement |-> NoElement ]

\* the result of an agent step: the agent, the page, the messages it posts and
\* the marked elements before the step and after each change of a marker
AR(ag, d, out) == [agent |-> ag, dom |-> d, out |-> out, marks |-> <<>>]

\* sendToEditor: stamps and posts to window.parent, only in editor mode
sendToEditor(ag, type, payload) ==
  IF ~ag.isInEditorMode THEN <<>>
  ELSE <<Event(FrameOrigin, Envelope(type, "msg", 1, payload))>>

highlightEditableElements(d) ==
  [e \in DOMAIN d |-> IF IsEditable(d[e]) THEN [d[e] EXCEPT !.title = TRUE] ELSE d[e]]

\* variant: the marker of the previous selection is left in place
clearSelectionNone(ag, d) == d

\* selectElement, deselectElement: this.selectedElement.removeAttribute(...)
clearSelection(ag, d) ==
  IF ag.selectedElement # NoElement
  THEN [d EXCEPT ![ag.selectedElement].selected = FALSE] ELSE d

\* element: a block of the page, NoElement when the selector matches nothing
selectElement(ag, d, element) ==
  IF element \notin DOMAIN d THEN AR(ag, d, <<>>)
  ELSE LET d1 == clearSelection(ag, d)
           ag1 == [ag EXCEPT !.selectedElement = element]
           d2 == [d1 EXCEPT ![element].selected = TRUE]
       IN [AR(ag1, d2,
              sendToEditor(ag1, "ELEMENT_SELECTED",
                           Payload(element, d2[element].textContent, "select")))
             EXCEPT !.marks = <<Marked(d), Marked(d1), Marked(d2)>>]

deselectElement(ag, d) ==
  LET d1 == clearSelection(ag, d)
      ag1 == [ag EXCEPT !.selectedElement = NoElement]
  IN [AR(ag1, d1, sendToEditor(ag1, "ELEMENT_DESELECTED", NoPayload))
        EXCEPT !.marks = IF ag.selectedElement # NoElement
                         THEN <<Marked(d), Marked(d1)>> ELSE <<>>]

updateElementContent(ag, d, p) ==
  IF p.elementId \in DOMAIN d
  THEN LET element == d[p.elementId]
           d1 == IF ElementType(element) = "image" /\ TagName(element) = "IMG"
                 THEN [d EXCEPT ![p.elementId].src = ToStr(p.content)]
                 ELSE IF TypeOf(p.content) = "string"
                      THEN [d EXCEPT ![p.elementId].textContent = p.content]
                      ELSE d
       IN AR(ag, d1,
             sendToEditor(ag, "CONTENT_CHANGED", Payload(p.elementId, p.content, p.cause)))
  ELSE AR(ag, d, <<>>)


\* the reports of exitEditMode, in document order from block e on
RECURSIVE exitReports(_, _, _)
exitReports(ag, d, e) ==
  IF e \notin DOMAIN d THEN <<>>
  ELSE (IF d[e].contentEditable
        THEN sendToEditor(ag, "CONTENT_CHANGED", Payload(e, d[e].textContent, "exit"))
        ELSE <<>>) \o exitReports(ag, d, e + 1)

\* the blocks that are being edited in place
InlineEdited(d) == {e \in DOMAIN d : d[e].contentEditable}

exitEditMode(ag, d) ==
  AR(ag, [e \in DOMAIN d |-> [d[e] EXCEPT !.contentEditable = FALSE]], exitReports(ag, d, 1))

\* element.focus() takes the focus from a block that was being edited in
\* place; the blur listener that block got from its own enterEditMode then
\* runs exitEditMode, after contentEditable of the new block was set.
enterEditMode(ag, d, elementId) ==
  IF elementId \in DOMAIN d /\ ElementType(d[elementId]) = "text"
  THEN LET d1 == [d EXCEPT ![elementId].contentEditable = TRUE]
       IN IF InlineEdited(d) \ {elementId} # {} THEN exitEditMode(ag, d1)
          ELSE AR(ag, d1, <<>>)
  ELSE AR(ag, d, <<>>)

\* message.type of null data throws inside the listener's try block: the
\* OTHER branch.
handleEditorMessage(ag, d, message) ==
  CASE message.type = "EDITOR_READY" ->
         AR([ag EXCEPT !.isInEditorMode = TRUE], highlightEditableElements(d), <<>>)
    [] message.type = "SELECT_ELEMENT" -> selectElement(ag, d, message.payload.elementId)
    [] message.type = "UPDATE_CONTENT" -> updateElementContent(ag, d, message.payload)
    [] message.type = "ENTER_EDIT_MODE" -> enterEditMode(ag, d, message.payload.elementId)
    [] message.type = "EXIT_EDIT_MODE" -> exitEditMode(ag, d)
    [] OTHER -> AR(ag, d, <<>>)

\* event.origin.includes('localhost:3000')
IncludesLocalhost3000(origin) == origin = EditorOrigin

\* the listener's bookkeeping of the editor origin
rememberOrigin(ag, ev) ==
  IF ag.editorOrigin = "null" /\ IncludesLocalhost3000(ev.origin)
  THEN [ag EXCEPT !.editorOrigin = ev.origin] ELSE ag

\* the listener passes the event on to handleEditorMessage
agentAccepts(ag, ev) ==
  ~(rememberOrigin(ag, ev).editorOrigin # "null"
    /\ ev.origin # rememberOrigin(ag, ev).editorOrigin)

\* the agent's message listener
agentListener(ag, d, ev) ==
  IF agentAccepts(ag, ev)
  THEN handleEditorMessage(rememberOrigin(ag, ev), d, ev.data)
  ELSE AR(rememberOrigin(ag, ev), d, <<>>)

\* The agent's click listener.  target: the block that target.closest(
\* '[data-editable="true"]') finds, NoElement for a click on the body (the
\* body is never the tracked selection: selections are blocks).
clickHandler(ag, d, target) ==
  IF ~ag.isInEditorMode THEN AR(ag, d, <<>>)
  ELSE IF target \in DOMAIN d /\ IsEditable(d[target]) THEN selectElement(ag, d, target)
  ELSE IF target = NoElement THEN deselectElement(ag, d)
  ELSE AR(ag, d, <<>>)

\* the constructor: the listeners are set up, then detectEditorMode
detectEditorMode(ag, d) ==
  IF ag.embedded
  THEN LET ag1 == [ag EXCEPT !.constructed = TRUE, !.isInEditorMode = TRUE]
       IN AR(ag1, d, sendToEditor(ag1, "IFRAME_READY", NoPayload))
  ELSE AR([ag EXCEPT !.constructed = TRUE], d, <<>>)

\* ------------------------------------------------------ history variables
NoUpdate == ContentUpdate(NoElement, "none", "", "")

NoEvent == Event("none", Envelope("", "", 0, NoPayload))

Op(name) ==
  [op |-> name, futureBefore |-> 0,
   cause |-> "none", recorded |-> FALSE, handler |-> "none", event |-> NoEvent,
   error |-> "none", marks |-> <<>>, loaded |-> <<>>, sent |-> <<>>,
   registered |-> <<>>]

OpAdd(name, s, update, cause) ==
  [Op(name) EXCEPT !.futureBefore = Len(s.history.future),
                   !.cause = cause, !.recorded = TRUE]

TrackReset ==
  [fresh |-> TRUE, elems |-> {}, chain |-> 0, c |-> NoUpdate]
\* fresh: only changes, each on another element, since the reset (elems: on
\* which); chain: 1 after a change c, 2 after its undo, 3 after its redo.
TrackStale == [fresh |-> FALSE, elems |-> {}, chain |-> 0, c |-> NoUpdate]
TrackAdd(t, update) ==
  LET fresh == t.fresh /\ update.elementId \notin t.elems
  IN [fresh |-> fresh,
      elems |-> IF fresh THEN t.elems \cup {update.elementId} ELSE {},
      chain |-> 1, c |-> update]
TrackUndo(t) ==
  IF t.chain = 1 THEN [TrackStale EXCEPT !.chain = 2, !.c = t.c] ELSE TrackStale
TrackRedo(t) ==
  IF t.chain = 2 THEN [TrackStale EXCEPT !.chain = 3, !.c = t.c] ELSE TrackStale
TrackLoad(t) == [t EXCEPT !.chain = 0]

\* no request awaits its response; publish: where PublishPanel.handlePublish
\* stands ("idle", "saving": awaiting saveDraft, "publishing": awaiting the
\* publish request, "reloading": done, the window is about to reload)
NoRequests == [loads |-> 0, saves |-> 0, publish |-> "idle"]

\* ------------------------------------------------------------------ Init
Init ==
  /\ store = initialState
  /\ bridge = NewBridge
  /\ toFrame = <<>>
  /\ toEditor = <<>>
  /\ agent = NewAgent
  /\ dom = TextPage
  /\ net = NoRequests
  /\ ui = [hook |-> FALSE, settings |-> FALSE, frame |-> FALSE, loaded |-> FALSE,
           overlay |-> FALSE,
           selectedElement |-> NoElement, selectedText |-> EmptyText,
           editingElement |-> NoElement]
  /\ lastOp = Op("init")
  /\ track = TrackReset
  /\ nChanges = 0
  /\ sentLog = <<>>
  /\ nActions = 0

\* The bridge has observed the readiness of a frame and no frame is bound to
\* it: sendMessage drops what the hook sends.
InitStore ==
  /\ store = initialState
  /\ bridge = [NewBridge EXCEPT !.isReady = TRUE]
  /\ toFrame = <<>>
  /\ toEditor = <<>>
  /\ agent = NewAgent
  /\ dom = TextPage
  /\ net = NoRequests
  /\ ui = [hook |-> FALSE, settings |-> FALSE, frame |-> FALSE, loaded |-> FALSE,
           overlay |-> FALSE,
           selectedElement |-> NoElement, selectedText |-> EmptyText,
           editingElement |-> NoElement]
  /\ lastOp = Op("init")
  /\ track = TrackReset
  /\ nChanges = 0
  /\ sentLog = <<>>
  /\ nActions = 0

\* messages queued in the bridge or travelling in either direction
Pending == Len(bridge.messageQueue) + Len(toFrame) + Len(toEditor)
Room(k) == Pending + k <= MaxInFlight

OverlayTypes == {"ELEMENT_SELECTED", "ELEMENT_CLICKED", "CONTENT_CHANGED", "ELEMENT_DESELECTED"}

\* EditorOverlay's effect: its four handlers are registered
overlayEffect(b) ==
  [b EXCEPT !.messageHandlers =
     [t \in (DOMAIN b.messageHandlers) \cup OverlayTypes |->
        IF t \in OverlayTypes THEN "overlay" ELSE b.messageHandlers[t]]]

\* EditorOverlay's handlers: ui holds its selectedElement (id and the
\* textContent reported with the selection) and its editingElement.
overlayHandle(u, message) ==
  LET p == message.payload
  IN CASE message.type = "ELEMENT_SELECTED" ->
            IF p.elementId # NoElement
            THEN [u EXCEPT !.selectedElement = p.elementId, !.selectedText = p.content]
            ELSE u
       [] message.type = "CONTENT_CHANGED" ->
            IF /\ p.elementId # NoElement /\ p.content # Undefined
               /\ u.editingElement # NoElement /\ p.elementId = u.editingElement
               /\ (u.selectedElement = NoElement \/ p.content # u.selectedText)
            THEN [u EXCEPT !.editingElement = NoElement]
            ELSE u
       [] message.type = "ELEMENT_DESELECTED" ->
            IF u.editingElement = NoElement \/ p.elementId = u.editingElement
            THEN [u EXCEPT !.selectedElement = NoElement, !.selectedText = EmptyText,
                           !.editingElement = NoElement]
            ELSE u
       [] OTHER -> u

\* the hook's effect: off('CONTENT_CHANGED') then on('CONTENT_CHANGED', handleContentChanged)
hookEffect(b) == on(off(b, "CONTENT_CHANGED"), "CONTENT_CHANGED", "store")

\* A render of EditorInterface re-runs the effects of the mounted components,
\* the overlay's (a child) before the hook's.
Rerender(b, u) ==
  LET b1 == IF u.overlay THEN overlayEffect(b) ELSE b
  IN IF u.hook THEN hookEffect(b1) ELSE b1

\* ---------------------------------------------------------------- actions
\* A component that uses the hook commits for the first time: the hook
\* initialises the store, starts the load and registers its handler.
MountHook ==
  /\ ~ui.hook
  /\ ui' = [ui EXCEPT !.hook = TRUE]
  /\ bridge' = hookEffect(bridge)
  /\ store' = [initializeEditor(store, "site") EXCEPT !.isLoadingDrafts = TRUE]
  /\ net' = [net EXCEPT !.loads = @ + 1]
  /\ lastOp' = Op("initializeEditor")
  /\ track' = TrackReset
  /\ UNCHANGED <<toFrame, toEditor, agent, dom, nChanges, sentLog, nActions>>

\* First commit of EditorInterface: IframeContainer binds the frame ref, then
\* the hook's effects run, then EditorInterface sets the allowed origins.
Mount ==
  /\ ~ui.hook
  /\ ui' = [ui EXCEPT !.hook = TRUE, !.frame = TRUE]
  /\ bridge' = setAllowedOrigins(hookEffect(setIframeRef(bridge, TRUE)), {FrameOrigin})
  /\ store' = [initializeEditor(store, "site") EXCEPT !.isLoadingDrafts = TRUE]
  /\ net' = [net EXCEPT !.loads = @ + 1]
  /\ lastOp' = Op("initializeEditor")
  /\ track' = TrackReset
  /\ UNCHANGED <<toFrame, toEditor, agent, dom, nChanges, sentLog, nActions>>

\* SettingsPanel, the second component that uses the hook, commits for the
\* first time: its instance of the hook initialises the store again and starts
\* a load of its own.
MountSettings ==
  /\ ui.hook /\ ~ui.settings
  /\ ui' = [ui EXCEPT !.settings = TRUE]
  /\ store' = [initializeEditor(store, "site") EXCEPT !.isLoadingDrafts = TRUE]
  /\ net' = [net EXCEPT !.loads = @ + 1]
  /\ bridge' = Rerender(bridge, ui)
  /\ lastOp' = Op("initializeEditor")
  /\ track' = TrackReset
  /\ UNCHANGED <<toFrame, toEditor, agent, dom, nChanges, sentLog, nActions>>

\* the content document the persistence API answers a load with: the page as
\* published, from a content file that has been written before
SiteDatas ==
  {[pages |-> [e \in Elements |-> StringValue(PageText)], lastModified |-> 1]}

\* loadDraftContent resumes with the response, one of siteDatas; loadDrafts
\* then sends the imported values to the frame.
LoadFrom(siteDatas) ==
  /\ net.loads > 0
  /\ \E siteData \in siteDatas :
       LET blocks == [k \in DOMAIN siteData.pages |-> convertBlock(siteData.pages[k])]
           keys == importedKeys(blocks)
           order == CHOOSE sq \in [1..Cardinality(keys) -> keys] :
                      \A i, j \in 1..Cardinality(keys) : i < j => sq[i] < sq[j]
           r == sendAll(bridge, toFrame,
                        [i \in 1..Cardinality(keys) |->
                           UpdateContent(order[i], blocks[order[i]].value, "load")])
       IN /\ Room(Cardinality(keys))
          /\ store' = loadSucceeded(store, blocks, siteData.lastModified)
          /\ bridge' = Rerender(r.bridge, ui)
          /\ toFrame' = r.toFrame
          /\ lastOp' = [Op("loadOk") EXCEPT !.loaded = siteData.pages]
  /\ net' = [net EXCEPT !.loads = @ - 1]
  /\ track' = TrackLoad(track)
  /\ UNCHANGED <<toEditor, agent, dom, ui, nChanges, sentLog, nActions>>

LoadOk == LoadFrom(SiteDatas)

\* Content files whose blocks are strings or objects with the fields of a
\* draft block; lastModified is optional (0: absent).
StoredValues ==
  { StringValue(PageText),
    ObjectValue("Hello", "Hello there", TRUE, "draft"),
    ObjectValue("Hello", "Hello there", TRUE, "published"),
    ObjectValue(Null, "New", TRUE, "draft"),
    ObjectValue(Null, "New", FALSE, "draft"),
    ObjectValue("Hello", Null, FALSE, "published") }

StoredSites ==
  {[pages |-> pages, lastModified |-> m] : pages \in [Elements -> StoredValues], m \in {0, 1}}

\* a load answered with any of these content files
LoadSite == LoadFrom(StoredSites)

LoadFail ==
  /\ net.loads > 0
  /\ store' = [store EXCEPT !.isLoadingDrafts = FALSE]
  /\ net' = [net EXCEPT !.loads = @ - 1]
  /\ bridge' = Rerender(bridge, ui)
  /\ lastOp' = Op("loadFail")
  /\ UNCHANGED <<toFrame, toEditor, agent, dom, ui, track, nChanges, sentLog, nActions>>

\* The changeText of the hook: the handler sends UPDATE_CONTENT, then the
\* change is recorded.
ChangeText ==
  /\ ui.hook
  /\ nChanges < MaxChanges
  /\ Room(1)
  /\ \E e \in Elements, newValue \in Texts :
       LET update == ContentUpdate(e, "text", currentValue(store, e), newValue)
           r == sendToIframe(bridge, toFrame, UpdateContent(e, newValue, "edit"), "msg")
       IN /\ store' = addContentChange(store, update)
          /\ bridge' = Rerender(r.bridge, ui)
          /\ toFrame' = r.toFrame
          /\ lastOp' = OpAdd("addContentChange", store, update, "edit")
          /\ track' = TrackAdd(track, update)
  /\ nChanges' = nChanges + 1
  /\ UNCHANGED <<toEditor, agent, dom, net, ui, sentLog, nActions>>

\* A composite operation records the changes it made to several elements, one
\* update for each of them, as one undoable unit (addBatchChanges).
BatchChange ==
  /\ ui.hook
  /\ \E n \in 1..(MaxChanges - nChanges) :
       /\ \E es \in [1..n -> Elements], vs \in [1..n -> Texts] :
            /\ \A i, j \in 1..n : i # j => es[i] # es[j]
            /\ store' = addBatchChanges(store,
                           [i \in 1..n |->
                              ContentUpdate(es[i], "text", currentValue(store, es[i]), vs[i])])
       /\ nChanges' = nChanges + n
  /\ bridge' = Rerender(bridge, ui)
  /\ lastOp' = Op("addBatchChanges")
  /\ track' = TrackStale
  /\ UNCHANGED <<toFrame, toEditor, agent, dom, net, ui, sentLog, nActions>>

\* Ctrl+Z: the keyboard handler of EditorInterface calls undo() whatever the
\* state of the history; without a state change nothing renders.
UndoStep ==
  /\ ui.hook
  /\ LET u == undoCalled(store)
         r == sendAll(bridge, toFrame, u.sent)
     IN /\ Room(Len(u.sent))
        /\ store' = u.store
        /\ bridge' = IF u.ran THEN Rerender(r.bridge, ui) ELSE bridge
        /\ toFrame' = r.toFrame
        /\ lastOp' = [Op("undo") EXCEPT !.sent = u.sent]
        /\ track' = IF u.ran THEN TrackUndo(track) ELSE track
  /\ UNCHANGED <<toEditor, agent, dom, net, ui, nChanges, sentLog>>

UndoCall == UndoStep /\ UNCHANGED nActions

\* Ctrl+Y or Ctrl+Shift+Z
RedoStep ==
  /\ ui.hook
  /\ LET u == redoCalled(store)
         r == sendAll(bridge, toFrame, u.sent)
     IN /\ Room(Len(u.sent))
        /\ store' = u.store
        /\ bridge' = IF u.ran THEN Rerender(r.bridge, ui) ELSE bridge
        /\ toFrame' = r.toFrame
        /\ lastOp' = [Op("redo") EXCEPT !.sent = u.sent]
        /\ track' = IF u.ran THEN TrackRedo(track) ELSE track
  /\ UNCHANGED <<toEditor, agent, dom, net, ui, nChanges, sentLog>>

RedoCall == RedoStep /\ UNCHANGED nActions

\* the Undo button, enabled while there is something to undo
Undo ==
  /\ ~(Len(store.history.past) = 0 \/ store.isExecutingCommand)
  /\ UndoCall

\* the Redo button
Redo ==
  /\ ~(Len(store.history.future) = 0 \/ store.isExecutingCommand)
  /\ RedoCall

\* useHasUnsavedChanges, the selector behind the hook's hasUnsavedChanges
useHasUnsavedChanges(s) == s.hasUnsavedEdits

\* variant: saveDraft has no early return
saveDraftCalledAlways(s) == [ran |-> TRUE, store |-> setSavingState(s, TRUE)]

\* saveDraft up to its await: whether it went past its early return, and the
\* store it leaves
saveDraftCalled(s) ==
  IF ~useHasUnsavedChanges(s) THEN [ran |-> FALSE, store |-> s]
  ELSE [ran |-> TRUE, store |-> setSavingState(s, TRUE)]

\* how saveDraft ends for its caller: the catch block logs the error and
\* throws it again
saveDraftThrows(ok) == IF ok THEN "none" ELSE "thrown"

\* A component that holds the hook calls saveDraft(), with or without unsaved
\* edits; the request is issued after the early return.
SaveDraftCall ==
  /\ ui.hook
  /\ LET c == saveDraftCalled(store)
     IN /\ c.ran => net.saves < MaxSaves
        /\ store' = c.store
        /\ net' = IF c.ran THEN [net EXCEPT !.saves = @ + 1] ELSE net
        /\ bridge' = IF c.ran THEN Rerender(bridge, ui) ELSE bridge
  /\ lastOp' = Op("saveDraft")
  /\ UNCHANGED <<toFrame, toEditor, agent, dom, ui, track, nChanges, sentLog, nActions>>

\* saveDraft up to its await: it returns at once without unsaved edits (the
\* auto-save timer and the publish panel are its callers).
SaveDraft ==
  /\ ui.hook
  /\ store.hasUnsavedEdits
  /\ net.saves < MaxSaves
  /\ store' = setSavingState(store, TRUE)
  /\ net' = [net EXCEPT !.saves = @ + 1]
  /\ bridge' = Rerender(bridge, ui)
  /\ lastOp' = Op("saveDraft")
  /\ UNCHANGED <<toFrame, toEditor, agent, dom, ui, track, nChanges, sentLog, nActions>>

\* the save request succeeded: markDraftsSaved, then the finally block
SaveOk ==
  /\ net.saves > 0
  /\ store' = setSavingState(markDraftsSaved(store), FALSE)
  /\ net' = [net EXCEPT !.saves = @ - 1]
  /\ bridge' = Rerender(bridge, ui)
  /\ lastOp' = Op("saveOk")
  /\ UNCHANGED <<toFrame, toEditor, agent, dom, ui, track, nChanges, sentLog, nActions>>

\* the save request failed: the error is re-thrown after the finally block
SaveFail ==
  /\ net.saves > 0
  /\ store' = setSavingState(store, FALSE)
  /\ net' = [net EXCEPT !.saves = @ - 1]
  /\ bridge' = Rerender(bridge, ui)
  /\ lastOp' = [Op("saveFail") EXCEPT !.error = saveDraftThrows(FALSE)]
  /\ UNCHANGED <<toFrame, toEditor, agent, dom, ui, track, nChanges, sentLog, nActions>>

\* ---- PublishPanel.handlePublish, up to each of its awaits
\* where handlePublish stands after its synchronous start
publishStart(s) ==
  IF ~s.hasUnpublishedChanges THEN "idle"
  ELSE IF s.hasUnsavedEdits THEN "saving"
  ELSE "publishing"

\* variant: the failure of the save is logged and the publish goes on
publishAfterSaveAnyway(saved) == "publishing"

\* after `await saveDraft()`: the catch block returns when the save threw
publishAfterSave(saved) == IF saved THEN "publishing" ELSE "idle"

\* saveDraft after its await: markDraftsSaved when the response was ok, the
\* finally block in both cases
saveDraftEnd(s, ok) == setSavingState(IF ok THEN markDraftsSaved(s) ELSE s, FALSE)

\* onMarkPublished, then onClearDrafts
publishCompleted(s) == clearEditor(markDraftsPublished(s))

\* The auto-save timer of EditorInterface fires: its effect set it while
\* there were unsaved changes and no save was marked as running, and clears it
\* when either changes.
AutoSave ==
  /\ ui.hook
  /\ store.hasUnsavedEdits /\ ~store.isSaving
  /\ net.saves < MaxSaves
  /\ store' = setSavingState(store, TRUE)
  /\ net' = [net EXCEPT !.saves = @ + 1]
  /\ bridge' = Rerender(bridge, ui)
  /\ lastOp' = Op("autoSave")
  /\ UNCHANGED <<toFrame, toEditor, agent, dom, ui, track, nChanges, sentLog, nActions>>

\* The user clicks 'Publish to Live Site' (enabled with unpublished changes
\* while no publish is running).
PublishClick ==
  /\ ui.hook
  /\ net.publish = "idle"
  /\ store.hasUnpublishedChanges
  /\ net' = [net EXCEPT !.publish = publishStart(store)]
  /\ store' = IF publishStart(store) = "saving" THEN setSavingState(store, TRUE) ELSE store
  /\ bridge' = Rerender(bridge, ui)
  /\ lastOp' = Op("publishClick")
  /\ UNCHANGED <<toFrame, toEditor, agent, dom, ui, track, nChanges, sentLog, nActions>>

\* The save that handlePublish awaits ends, with an ok response or not.
PublishSaveEnd ==
  /\ net.publish = "saving"
  /\ \E ok \in BOOLEAN :
       /\ store' = saveDraftEnd(store, ok)
       /\ net' = [net EXCEPT !.publish = publishAfterSave(ok)]
       /\ lastOp' = Op(IF ok THEN "publishSaveOk" ELSE "publishSaveFail")
  /\ bridge' = Rerender(bridge, ui)
  /\ UNCHANGED <<toFrame, toEditor, agent, dom, ui, track, nChanges, sentLog, nActions>>

\* The publish request fails: handlePublish notifies and ends.
PublishFail ==
  /\ net.publish = "publishing"
  /\ net' = [net EXCEPT !.publish = "idle"]
  /\ lastOp' = Op("publishFail")
  /\ UNCHANGED <<store, bridge, toFrame, toEditor, agent, dom, ui, track, nChanges, sentLog, nActions>>

\* The publish request succeeds: the drafts are marked published and cleared,
\* then onPublishComplete asks the editor window to reload.
PublishOk ==
  /\ net.publish = "publishing"
  /\ store' = publishCompleted(store)
  /\ net' = [net EXCEPT !.publish = "reloading"]
  /\ bridge' = Rerender(bridge, ui)
  /\ lastOp' = Op("publishOk")
  /\ track' = TrackReset
  /\ UNCHANGED <<toFrame, toEditor, agent, dom, ui, nChanges, sentLog, nActions>>

\* The editor window reloads: the application starts over and the requests
\* still awaited are lost with the old document.
Reload ==
  /\ net.publish = "reloading"
  /\ store' = initialState
  /\ bridge' = [NewBridge EXCEPT !.isReady = TRUE]
  /\ net' = NoRequests
  /\ ui' = [ui EXCEPT !.hook = FALSE, !.settings = FALSE]
  /\ lastOp' = Op("reload")
  /\ track' = TrackReset
  /\ UNCHANGED <<toFrame, toEditor, agent, dom, nChanges, sentLog, nActions>>

\* markPublished of the hook
MarkPublished ==
  /\ ui.hook
  /\ store' = markDraftsPublished(store)
  /\ bridge' = Rerender(bridge, ui)
  /\ lastOp' = Op("markDraftsPublished")
  /\ UNCHANGED <<toFrame, toEditor, agent, dom, net, ui, track, nChanges, sentLog, nActions>>

\* clearDrafts of the hook
ClearDrafts ==
  /\ ui.hook
  /\ store' = clearEditor(store)
  /\ bridge' = Rerender(bridge, ui)
  /\ lastOp' = Op("clearEditor")
  /\ track' = TrackReset
  /\ UNCHANGED <<toFrame, toEditor, agent, dom, net, ui, nChanges, sentLog, nActions>>

\* The iframe fired load: handleIframeLoad posts an unstamped EDITOR_READY
\* and EditorInterface mounts the overlay, whose effect registers its handlers.
FrameLoad ==
  /\ ui.frame /\ ~ui.loaded
  /\ Room(1)
  /\ toFrame' = Append(toFrame,
                  Event(EditorOrigin, Envelope("EDITOR_READY", "", 0, NoPayload)))
  /\ ui' = [ui EXCEPT !.loaded = TRUE, !.overlay = TRUE]
  /\ bridge' = Rerender(bridge, ui')
  /\ lastOp' = Op("frameLoad")
  /\ UNCHANGED <<store, toEditor, agent, dom, net, track, nChanges, sentLog, nActions>>

\* EditorOverlay renders on a change of its own state: only its effect runs.
OverlayRender ==
  /\ ui.overlay
  /\ bridge' = overlayEffect(bridge)
  /\ lastOp' = Op("overlayRender")
  /\ UNCHANGED <<store, toFrame, toEditor, agent, dom, net, ui, track, nChanges, sentLog, nActions>>

\* The previewed page constructs its ClientEditorBridge.
AgentStart ==
  /\ ui.frame /\ ~agent.constructed
  /\ Room(1)
  /\ LET r == detectEditorMode(agent, dom)
     IN /\ agent' = r.agent
        /\ toEditor' = toEditor \o r.out
  /\ lastOp' = Op("agentStart")
  /\ UNCHANGED <<store, bridge, toFrame, dom, net, ui, track, nChanges, sentLog, nActions>>

\* The frame window receives a message event; without a listener it is lost.
AgentReceive ==
  /\ toFrame # <<>>
  /\ LET r == IF agent.constructed THEN agentListener(agent, dom, Head(toFrame))
              ELSE AR(agent, dom, <<>>)
     IN /\ agent' = r.agent
        /\ dom' = r.dom
        /\ toEditor' = toEditor \o r.out
  /\ toFrame' = Tail(toFrame)
  /\ lastOp' = Op("agentReceive")
  /\ UNCHANGED <<store, bridge, net, ui, track, nChanges, sentLog, nActions>>

\* history of a delivered message event
OpReceive(ev) ==
  LET handler == HandlerFor(bridge, ev)
      records == handler = "store" /\ contentChangedRecords(store, ev.data)
  IN [Op("windowMessage") EXCEPT
        !.futureBefore = IF records THEN Len(store.history.future) ELSE 0,
        !.cause = ev.data.payload.cause, !.recorded = records, !.handler = handler]

\* The bridge's listener runs for a message event and calls the registered
\* handler (the store's handleContentChanged, or one that changes no modelled state).
Receive(ev) ==
  LET r == listenerBridge(bridge, toFrame, ev)
      handler == HandlerFor(bridge, ev)
      records == handler = "store" /\ contentChangedRecords(store, ev.data)
      sends == IF handler = "store" THEN contentChangedSends(store, ev.data) ELSE <<>>
      sent == sendAll(r.bridge, r.toFrame, sends)
      renders == handler = "overlay" /\ overlayHandle(ui, ev.data) # ui
  IN /\ records => nChanges < MaxChanges
     /\ store' = IF handler = "store" THEN handleContentChanged(store, ev.data) ELSE store
     /\ bridge' = IF records THEN Rerender(sent.bridge, ui)
                  ELSE IF renders THEN overlayEffect(sent.bridge) ELSE sent.bridge
     /\ toFrame' = sent.toFrame
     /\ nChanges' = IF records THEN nChanges + 1 ELSE nChanges
     /\ track' = IF records THEN TrackAdd(track, contentChangedUpdate(store, ev.data))
                 ELSE track

\* The editor window receives the oldest message event the frame posted.
WindowMessage ==
  /\ toEditor # <<>>
  /\ Receive(Head(toEditor))
  /\ ui' = IF HandlerFor(bridge, Head(toEditor)) = "overlay"
           THEN overlayHandle(ui, Head(toEditor).data) ELSE ui
  /\ lastOp' = OpReceive(Head(toEditor))
  /\ toEditor' = Tail(toEditor)
  /\ UNCHANGED <<agent, dom, net, sentLog, nActions>>

\* The user clicks a block of the previewed page, or its body, while no
\* other block is being edited in place (a click elsewhere blurs first).
FrameClick ==
  /\ nActions < MaxActions
  /\ nActions' = nActions + 1
  /\ agent.constructed
  /\ Room(1)
  /\ \E target \in Elements \cup {NoElement} :
       /\ InlineEdited(dom) \ {target} = {}
       /\ LET r == clickHandler(agent, dom, target)
          IN /\ agent' = r.agent
             /\ dom' = r.dom
             /\ toEditor' = toEditor \o r.out
  /\ lastOp' = Op("click")
  /\ UNCHANGED <<store, bridge, toFrame, net, ui, track, nChanges, sentLog>>

\* The user types into the block of the previewed page that is being edited
\* in place.
FrameType ==
  /\ nActions < MaxActions
  /\ nActions' = nActions + 1
  /\ \E e \in Elements :
       /\ dom[e].contentEditable
       /\ dom[e].textContent # "b"
       /\ dom' = [dom EXCEPT ![e].textContent = "b"]
  /\ lastOp' = Op("type")
  /\ UNCHANGED <<store, bridge, toFrame, toEditor, agent, net, ui, track, nChanges, sentLog>>

\* The block edited in place loses focus or Enter is pressed in it: the
\* listeners of enterEditMode run exitEditMode.
FrameBlur ==
  /\ nActions < MaxActions
  /\ nActions' = nActions + 1
  /\ InlineEdited(dom) # {}
  /\ LET r == exitEditMode(agent, dom)
     IN /\ agent' = r.agent
        /\ dom' = r.dom
        /\ toEditor' = toEditor \o r.out
  /\ lastOp' = Op("blur")
  /\ UNCHANGED <<store, bridge, toFrame, net, ui, track, nChanges, sentLog>>

\* The 'Edit text' button of the overlay, shown for a selected element while
\* none is edited: startEditing.
StartEditing ==
  /\ nActions < MaxActions
  /\ nActions' = nActions + 1
  /\ ui.overlay
  /\ ui.selectedElement # NoElement /\ ui.editingElement = NoElement
  /\ ElementType(dom[ui.selectedElement]) # "image"
  /\ Room(1)
  /\ LET r == sendToIframe(bridge, toFrame,
                           [type |-> "ENTER_EDIT_MODE",
                            payload |-> Payload(ui.selectedElement, Undefined, "enter")],
                           "msg")
     IN /\ bridge' = overlayEffect(r.bridge)
        /\ toFrame' = r.toFrame
  /\ ui' = [ui EXCEPT !.editingElement = ui.selectedElement]
  /\ lastOp' = Op("startEditing")
  /\ UNCHANGED <<store, toEditor, agent, dom, net, track, nChanges, sentLog>>

\* The check button of the overlay's popover, or Enter in its input: saveEdit
\* sends the value, records the change through addChange and leaves edit mode.
SaveEdit ==
  /\ nActions < MaxActions
  /\ nActions' = nActions + 1
  /\ ui.overlay /\ ui.hook
  /\ ui.editingElement # NoElement /\ ui.selectedElement # NoElement
  /\ nChanges < MaxChanges
  /\ Room(2)
  /\ \E editValue \in Texts :
       LET update == ContentUpdate(ui.editingElement, "text", ui.selectedText, editValue)
           r == sendAll(bridge, toFrame,
                        << UpdateContent(ui.editingElement, editValue, "edit"),
                           [type |-> "EXIT_EDIT_MODE", payload |-> NoPayload] >>)
       IN /\ store' = addContentChange(store, update)
          /\ bridge' = Rerender(r.bridge, ui)
          /\ toFrame' = r.toFrame
          /\ lastOp' = OpAdd("addContentChange", store, update, "edit")
          /\ track' = TrackAdd(track, update)
  /\ ui' = [ui EXCEPT !.editingElement = NoElement, !.selectedElement = NoElement,
                      !.selectedText = EmptyText]
  /\ nChanges' = nChanges + 1
  /\ UNCHANGED <<toEditor, agent, dom, net, sentLog>>

\* The X button of the popover, or Escape in its input: cancelEdit.
CancelEdit ==
  /\ nActions < MaxActions
  /\ nActions' = nActions + 1
  /\ ui.overlay
  /\ ui.editingElement # NoElement /\ ui.selectedElement # NoElement
  /\ Room(1)
  /\ LET r == sendToIframe(bridge, toFrame,
                           [type |-> "EXIT_EDIT_MODE", payload |-> NoPayload], "msg")
     IN /\ bridge' = overlayEffect(r.bridge)
        /\ toFrame' = r.toFrame
  /\ ui' = [ui EXCEPT !.editingElement = NoElement]
  /\ lastOp' = Op("cancelEdit")
  /\ UNCHANGED <<store, toEditor, agent, dom, net, track, nChanges, sentLog>>

\* The Undo and Redo buttons, among the user's bounded actions.
UndoClick ==
  /\ nActions < MaxActions
  /\ nActions' = nActions + 1
  /\ ~(Len(store.history.past) = 0 \/ store.isExecutingCommand)
  /\ UndoStep

RedoClick ==
  /\ nActions < MaxActions
  /\ nActions' = nActions + 1
  /\ ~(Len(store.history.future) = 0 \/ store.isExecutingCommand)
  /\ RedoStep

\* What a frame that is not modelled may post: content reports as the agent
\* builds them.
FrameReports ==
  {Event(FrameOrigin, Envelope("CONTENT_CHANGED", "msg", 1, Payload(e, c, "frame"))) :
     e \in Elements, c \in Texts \cup {EmptyText}}

\* The editor window receives a message event from such a frame.
FrameMessage ==
  /\ toEditor = <<>>
  /\ \E ev \in FrameReports : Receive(ev) /\ lastOp' = OpReceive(ev)
  /\ UNCHANGED <<toEditor, agent, dom, net, ui, sentLog, nActions>>

\* ------------------------------------------ the bridge taken alone
\* A bridge whose client (any code holding the singleton) calls its public
\* methods in any order while message events arrive from any window; toFrame
\* keeps everything posted to the frame.
InitBridge ==
  /\ store = initialState
  /\ bridge = NewBridge
  /\ toFrame = <<>>
  /\ toEditor = <<>>
  /\ agent = NewAgent
  /\ dom = TextPage
  /\ net = NoRequests
  /\ ui = [hook |-> FALSE, settings |-> FALSE, frame |-> FALSE, loaded |-> FALSE,
           overlay |-> FALSE,
           selectedElement |-> NoElement, selectedText |-> EmptyText,
           editingElement |-> NoElement]
  /\ lastOp = Op("init")
  /\ track = TrackReset
  /\ nChanges = 0
  /\ sentLog = <<>>
  /\ nActions = 0

\* fate of a logged call: "direct" (made after readiness was observed),
\* "waiting" (queued), "ready" / "unbound" (queued, then readiness was observed
\* with / without a frame handle bound), "destroyed" (queued, then destroy()),
\* "discarded" (destroyed, then readiness was observed)
Logged(id, fate) == [id |-> id, fate |-> fate]

Refate(log, from, to) ==
  [i \in 1..Len(log) |-> IF log[i].fate = from THEN Logged(log[i].id, to) ELSE log[i]]

BridgeUnchanged == UNCHANGED <<store, toEditor, agent, dom, net, ui, track, nChanges, nActions>>

BridgeSetIframeRef ==
  /\ \E ref \in BOOLEAN : bridge' = setIframeRef(bridge, ref)
  /\ lastOp' = Op("client")
  /\ UNCHANGED <<toFrame, sentLog>>
  /\ BridgeUnchanged

BridgeSetAllowedOrigins ==
  /\ \E origins \in {{}, {FrameOrigin}} : bridge' = setAllowedOrigins(bridge, origins)
  /\ lastOp' = Op("client")
  /\ UNCHANGED <<toFrame, sentLog>>
  /\ BridgeUnchanged

BridgeOn ==
  /\ bridge' = on(bridge, "CONTENT_CHANGED", "client")
  /\ lastOp' = Op("client")
  /\ UNCHANGED <<toFrame, sentLog>>
  /\ BridgeUnchanged

BridgeOff ==
  /\ bridge' = off(bridge, "CONTENT_CHANGED")
  /\ lastOp' = Op("client")
  /\ UNCHANGED <<toFrame, sentLog>>
  /\ BridgeUnchanged

\* the message id is generateMessageId()'s: another one at each call
BridgeSend ==
  /\ Len(sentLog) < MaxSends
  /\ LET messageId == ToString(Len(sentLog) + 1)
         r == sendToIframe(bridge, toFrame, UpdateContent(1, "a", "client"), messageId)
     IN /\ bridge' = r.bridge
        /\ toFrame' = r.toFrame
        /\ sentLog' = Append(sentLog,
                         Logged(messageId, IF bridge.isReady THEN "direct" ELSE "waiting"))
  /\ lastOp' = Op("client")
  /\ BridgeUnchanged

\* on() and off() called by either of two clients for either of two types
HandlerTypes == {"IFRAME_READY", "CONTENT_CHANGED"}
Clients == {"client", "other"}

BridgeRegister ==
  /\ \E t \in HandlerTypes, h \in Clients :
       /\ bridge' = on(bridge, t, h)
       /\ lastOp' = [Op("on") EXCEPT !.registered = <<t, h>>]
  /\ UNCHANGED <<toFrame, sentLog>>
  /\ BridgeUnchanged

BridgeUnregister ==
  /\ \E t \in HandlerTypes :
       /\ bridge' = off(bridge, t)
       /\ lastOp' = [Op("off") EXCEPT !.registered = <<t>>]
  /\ UNCHANGED <<toFrame, sentLog>>
  /\ BridgeUnchanged

BridgeDestroy ==
  /\ bridge' = destroy(bridge)
  /\ sentLog' = Refate(sentLog, "waiting", "destroyed")
  /\ lastOp' = Op("client")
  /\ UNCHANGED toFrame
  /\ BridgeUnchanged

\* message events any window may post to the editor window: well-formed ones,
\* ones that lack messageId, timestamp or type, and one whose data is null
InboundData ==
  { Envelope("IFRAME_READY", "msg", 1, NoPayload),
    Envelope("CONTENT_CHANGED", "msg", 1, Payload(1, "a", "frame")),
    Envelope("IFRAME_READY", "", 1, NoPayload),
    Envelope("IFRAME_READY", "msg", 0, NoPayload),
    Envelope("", "msg", 1, NoPayload),
    Envelope(Null, Null, 0, NoPayload) }

InboundEvents == {Event(origin, data) : origin \in {FrameOrigin, ForeignOrigin}, data \in InboundData}

\* the editor window receives a message event
BridgeMessage ==
  /\ \E ev \in InboundEvents :
       /\ Receive(ev)
       /\ lastOp' = [OpReceive(ev) EXCEPT !.event = ev, !.error = listenerError(bridge, ev)]
  /\ sentLog' = IF bridge'.isReady
                THEN Refate(Refate(sentLog, "waiting",
                                   IF bridge.iframeRef THEN "ready" ELSE "unbound"),
                            "destroyed", "discarded")
                ELSE sentLog
  /\ UNCHANGED <<toEditor, agent, dom, net, ui, nActions>>

\* ------------------------------------------ the agent taken alone
\* The previewed page with its agent, opened inside a frame or on its own:
\* any window may post message events to it and the user clicks and types in
\* it.  toEditor holds what the last step posted to window.parent.
MissingElement == NumElements + 1     \* a data-editor-id no element of the page carries

InitAgent ==
  /\ store = initialState
  /\ bridge = NewBridge
  /\ toFrame = <<>>
  /\ toEditor = <<>>
  /\ \E embedded \in BOOLEAN : agent = [NewAgent EXCEPT !.embedded = embedded]
  /\ dom = TemplatePage
  /\ net = NoRequests
  /\ ui = [hook |-> FALSE, settings |-> FALSE, frame |-> FALSE, loaded |-> FALSE,
           overlay |-> FALSE,
           selectedElement |-> NoElement, selectedText |-> EmptyText,
           editingElement |-> NoElement]
  /\ lastOp = Op("init")
  /\ track = TrackReset
  /\ nChanges = 0
  /\ sentLog = <<>>
  /\ nActions = 0

AgentUnchanged == UNCHANGED <<store, bridge, toFrame, net, ui, track, nChanges, sentLog, nActions>>

\* the step of the agent: its result becomes the state
AgentStep(name, ev, r) ==
  /\ agent' = r.agent
  /\ dom' = r.dom
  /\ toEditor' = r.out
  /\ lastOp' = [Op(name) EXCEPT !.event = ev, !.marks = r.marks]
  /\ AgentUnchanged

\* The script of the page runs: new ClientEditorBridge().
PageLoad ==
  /\ ~agent.constructed
  /\ AgentStep("construct", NoEvent, detectEditorMode(agent, dom))

AgentContents == {"a", BoolValue, NumValue}

\* Well-formed commands; the payload fields a command does not read are absent.
AgentCommands ==
  {Envelope(t, "msg", 1, NoPayload) : t \in {"EDITOR_READY", "EXIT_EDIT_MODE", "PING"}}
  \cup {Envelope(t, "msg", 1, Payload(e, Undefined, "editor")) :
          t \in {"SELECT_ELEMENT", "ENTER_EDIT_MODE"}, e \in Elements \cup {MissingElement}}
  \cup {Envelope("UPDATE_CONTENT", "msg", 1, Payload(e, c, "editor")) :
          e \in Elements \cup {MissingElement}, c \in AgentContents}

\* Message data without messageId and timestamp (as handleIframeLoad posts
\* EDITOR_READY), without one of the two, and null.
AgentUnstamped ==
  { Envelope("EDITOR_READY", "", 0, NoPayload),
    Envelope("UPDATE_CONTENT", "", 1, Payload(1, "a", "editor")),
    Envelope("UPDATE_CONTENT", "msg", 0, Payload(1, "a", "editor")),
    Envelope(Null, Null, 0, NoPayload) }

\* What a window of another origin posts.
AgentForeign ==
  { Envelope("EDITOR_READY", "msg", 1, NoPayload),
    Envelope("SELECT_ELEMENT", "msg", 1, Payload(1, Undefined, "editor")),
    Envelope("UPDATE_CONTENT", "msg", 1, Payload(1, "a", "editor")) }

AgentInbound ==
  {Event(EditorOrigin, data) : data \in AgentCommands \cup AgentUnstamped}
  \cup {Event(ForeignOrigin, data) : data \in AgentForeign}

\* The window of the page receives a message event.
PageMessage ==
  /\ agent.constructed
  /\ \E ev \in AgentInbound : AgentStep("message", ev, agentListener(agent, dom, ev))

\* The user clicks a block of the page, or the body.
PageClick ==
  /\ agent.constructed
  /\ \E target \in Elements \cup {NoElement} :
       AgentStep("click", NoEvent, clickHandler(agent, dom, target))

\* The user types into a block that is being edited in place.
PageType ==
  /\ \E e \in Elements :
       /\ dom[e].contentEditable
       /\ dom[e].textContent # "b"
       /\ AgentStep("type", NoEvent, AR(agent, [dom EXCEPT ![e].textContent = "b"], <<>>))

\* The block edited in place loses focus: the blur listener of enterEditMode.
PageBlur ==
  /\ \E e \in Elements : dom[e].contentEditable
  /\ AgentStep("blur", NoEvent, exitEditMode(agent, dom))

\* The user presses Enter without Shift in the block edited in place: the
\* keydown listener of enterEditMode calls element.blur().
PageEnterKey ==
  /\ \E e \in Elements : dom[e].contentEditable
  /\ AgentStep("enter", NoEvent, exitEditMode(agent, dom))

\* ------------------------------------------------------- specifications
\* The editing session: editor, bridge, frame and agent exchanging messages.
Next ==
  \/ Mount \/ FrameLoad \/ OverlayRender \/ AgentStart \/ AgentReceive \/ WindowMessage
  \/ ChangeText \/ Undo \/ Redo

Spec == Init /\ [][Next]_vars

\* The store used through the hook by a component that embeds no frame (the
\* frame's reports arrive as inputs): history, drafts and the content maps.
NextStore ==
  \/ MountHook \/ LoadOk \/ LoadFail
  \/ ChangeText \/ Undo \/ Redo
  \/ MarkPublished \/ ClearDrafts
  \/ FrameMessage

SpecStore == InitStore /\ [][NextStore]_vars

\* The store and the persistence API: the change flags, saves and loads.
NextSave ==
  \/ MountHook \/ MountSettings \/ LoadOk \/ LoadFail
  \/ ChangeText
  \/ SaveDraft \/ SaveOk \/ SaveFail \/ MarkPublished \/ ClearDrafts
  \/ FrameMessage

SpecSave == InitStore /\ [][NextSave]_vars

\* The bridge taken alone.
NextBridge ==
  \/ BridgeSetIframeRef \/ BridgeSetAllowedOrigins \/ BridgeOn \/ BridgeOff
  \/ BridgeSend \/ BridgeDestroy \/ BridgeMessage

SpecBridge == InitBridge /\ [][NextBridge]_vars

\* Loading the content file into the store.
NextLoad ==
  \/ MountHook \/ MountSettings \/ LoadSite \/ LoadFail
  \/ ChangeText \/ ClearDrafts

SpecLoad == InitStore /\ [][NextLoad]_vars

\* Saving and publishing: the auto-save timer and the publish panel.
NextPublish ==
  \/ MountHook \/ LoadOk \/ LoadFail
  \/ ChangeText
  \/ AutoSave \/ SaveOk \/ SaveFail
  \/ PublishClick \/ PublishSaveEnd \/ PublishFail \/ PublishOk \/ Reload

SpecPublish == InitStore /\ [][NextPublish]_vars

\* The agent taken alone.
NextAgent ==
  PageLoad \/ PageMessage \/ PageClick \/ PageType \/ PageBlur \/ PageEnterKey

SpecAgent == InitAgent /\ [][NextAgent]_vars

\* The editor and the agent of the previewed page with the user at both: the
\* overlay's editing, clicks and editing in place in the page, undo and redo.
NextTraffic ==
  \/ Mount \/ FrameLoad \/ AgentStart \/ AgentReceive \/ WindowMessage
  \/ FrameClick \/ FrameType \/ FrameBlur
  \/ StartEditing \/ SaveEdit \/ CancelEdit
  \/ UndoClick \/ RedoClick
SpecTraffic == Init /\ [][NextTraffic]_vars

\* The history of the store: changes, composite changes, undo and redo by
\* keyboard, and the load (nothing reaches a frame: none is bound).
NextHistory ==
  \/ MountHook \/ LoadOk \/ ChangeText \/ BatchChange \/ UndoCall \/ RedoCall
SpecHistory == InitStore /\ [][NextHistory]_vars

\* The handlers of the bridge: two clients register and unregister for two
\* message types while messages are sent and arrive.
NextHandlers ==
  \/ BridgeSetIframeRef \/ BridgeRegister \/ BridgeUnregister \/ BridgeSend
  \/ BridgeMessage
SpecHandlers == InitBridge /\ [][NextHandlers]_vars

\* saveDraft called at any time by a holder of the hook, and its outcomes.
NextSaveDraft ==
  \/ MountHook \/ LoadOk \/ ChangeText \/ SaveDraftCall \/ SaveOk \/ SaveFail
SpecSaveDraft == InitStore /\ [][NextSaveDraft]_vars

\* Undo and redo between the saves and the publications of the drafts.
NextUndoSave ==
  \/ MountHook \/ ChangeText \/ Undo \/ Redo \/ SaveDraft \/ SaveOk \/ SaveFail
  \/ MarkPublished
SpecUndoSave == InitStore /\ [][NextUndoSave]_vars

\* ---------------------------------------------------------------- claims
\* the changes since the store was reset, while each was on another element
FreshChanges == IF track.fresh THEN Cardinality(track.elems) ELSE 0

\* C1 as stated: after N >= 1 addContentChange calls on N distinct elements of
\* a freshly initialised store, past has N-1 entries, present is the entry of
\* the Nth change and future is empty.
C1_PastHasNMinus1 ==
  FreshChanges >= 1 =>
    /\ Len(store.history.past) = FreshChanges - 1
    /\ store.history.present = <<EditorChange(track.c)>>
    /\ store.history.future = <<>>

\* C1 as the code has it: after N >= 1 addContentChange calls on N distinct
\* elements of a freshly initialised store, past has N entries, the oldest of
\* them the empty present of the initial state, present is the entry of the
\* Nth change and future is empty.
C1_PastHasN ==
  FreshChanges >= 1 =>
    /\ Len(store.history.past) = FreshChanges
    /\ store.history.past[1] = <<>>
    /\ store.history.present = <<EditorChange(track.c)>>
    /\ store.history.future = <<>>

C1_Witness ==
  /\ FreshChanges = 2
  /\ Len(store.history.past) = 2
  /\ lastOp.recorded

\* C2: an undo that is not a no-op makes the last entry of past the present,
\* removes it from past and puts the former present at the front of future; a
\* redo that is not a no-op makes the first entry of future the present,
\* removes it from future and appends the former present to past.
C2_UndoRedoMoveOneEntry ==
  [][ /\ lastOp'.op = "undo" =>
           /\ store'.history.present = store.history.past[Len(store.history.past)]
           /\ store'.history.past = SubSeq(store.history.past, 1, Len(store.history.past) - 1)
           /\ store'.history.future = <<store.history.present>> \o store.history.future
      /\ lastOp'.op = "redo" =>
           /\ store'.history.present = store.history.future[1]
           /\ store'.history.future = SubSeq(store.history.future, 2, Len(store.history.future))
           /\ store'.history.past = store.history.past \o <<store.history.present>>
    ]_vars

\* a redo after two undos of two changes: entries on both sides of present
C2_Witness ==
  /\ lastOp.op = "redo"
  /\ Len(store.history.past) >= 1
  /\ Len(store.history.future) >= 1
  /\ store.history.present # <<>>

\* C3: after any addContentChange (called by the hook's changeText or by its
\* CONTENT_CHANGED handler) future is empty, whatever its length before.
C3_FutureEmptyAfterChange ==
  lastOp.recorded => store.history.future = <<>>

C3_Witness ==
  /\ lastOp.recorded
  /\ lastOp.futureBefore >= 1
  /\ store.history.future = <<>>

\* C4: a change c recorded by addContentChange on element e, then undo, then
\* redo: draftChanges[e].newValue is c.newValue, as right after c was recorded.
C4_UndoRedoRestoresDraft ==
  track.chain = 3 =>
    /\ Has(store.draftChanges, track.c.elementId)
    /\ store.draftChanges[track.c.elementId].newValue = track.c.newValue

C4_Witness ==
  /\ track.chain = 3
  /\ lastOp.op = "redo"
  /\ track.c.oldValue # track.c.newValue

\* C5: a CONTENT_CHANGED that the agent emits to confirm an UPDATE_CONTENT
\* issued by undo or redo is never recorded by the store as a new change (no
\* addContentChange: no history entry added, future not cleared), under every
\* interleaving of user actions and message deliveries.
C5_ConfirmationNeverRecorded ==
  (lastOp.op = "windowMessage" /\ lastOp.cause \in {"undo", "redo"}) => ~lastOp.recorded

\* C6 as stated: hasUnpublishedChanges is true right after every recorded
\* change, stays true when saveDraft succeeds, and only markDraftsPublished
\* turns it from true to false.
C6_OnlyPublishClears ==
  [][ /\ lastOp'.recorded => store'.hasUnpublishedChanges
      /\ (lastOp'.op = "saveOk" /\ store.hasUnpublishedChanges)
           => store'.hasUnpublishedChanges
      /\ (store.hasUnpublishedChanges /\ ~store'.hasUnpublishedChanges)
           => lastOp'.op = "markDraftsPublished"
    ]_vars

\* C6 as the code has it: hasUnpublishedChanges is true right after every
\* recorded change, stays true when saveDraft succeeds, and the operations
\* that turn it from true to false are markDraftsPublished, clearEditor,
\* initializeEditor and a load that completes (it imports no draft).
C6_PublishClearInitLoadClear ==
  [][ /\ lastOp'.recorded => store'.hasUnpublishedChanges
      /\ (lastOp'.op = "saveOk" /\ store.hasUnpublishedChanges)
           => store'.hasUnpublishedChanges
      /\ (store.hasUnpublishedChanges /\ ~store'.hasUnpublishedChanges)
           => lastOp'.op \in {"markDraftsPublished", "clearEditor",
                              "initializeEditor", "loadOk"}
    ]_vars

\* a save has succeeded and the changes it saved are still unpublished
C6_Witness ==
  /\ lastOp.op = "saveOk"
  /\ store.hasUnpublishedChanges
  /\ ~store.hasUnsavedEdits
  /\ DOMAIN store.draftChanges # {}

\* C7: right after a successful saveDraft hasUnsavedEdits is false, and right
\* after any recorded change, also a later one to an element saved before, it
\* is true.
C7_SavedThenChangedAgain ==
  /\ lastOp.op = "saveOk" => ~store.hasUnsavedEdits
  /\ lastOp.recorded => store.hasUnsavedEdits

\* two changes of one element, and a save that succeeded between them (the
\* load started at mount is still awaited, so the time stamp is the save's)
C7_Witness ==
  /\ lastOp.recorded
  /\ store.hasUnsavedEdits
  /\ store.lastSavedAt = 1 /\ net.loads = 1 /\ ~ui.settings
  /\ Len(store.history.past) = 2
  /\ store.history.past[2][1].elementId = store.history.present[1].elementId

\* the ids of the messages posted to the frame, in the order of posting
PostedIds == [i \in 1..Len(toFrame) |-> toFrame[i].data.messageId]

SentPos(id) == CHOOSE k \in 1..Len(sentLog) : sentLog[k].id = id

\* every logged call whose fate is one of fates has its message posted
AllPosted(fates) ==
  \A k \in 1..Len(sentLog) :
    sentLog[k].fate \in fates => \E i \in 1..Len(toFrame) : PostedIds[i] = sentLog[k].id

\* what is posted was sent, and is posted once and in the order of the calls
InSendOrder ==
  /\ \A i \in 1..Len(toFrame) : \E k \in 1..Len(sentLog) : sentLog[k].id = PostedIds[i]
  /\ \A i, j \in 1..Len(toFrame) : i < j => SentPos(PostedIds[i]) < SentPos(PostedIds[j])

\* C8 as stated: every message passed to sendToIframe before the bridge
\* observes IFRAME_READY is posted once readiness is observed, none dropped,
\* and the frame gets the bridge's messages in send order.
C8_QueuedAllPosted ==
  /\ AllPosted({"ready", "unbound", "discarded"})
  /\ InSendOrder

\* C8 as the code has it: a message passed to sendToIframe before the bridge
\* observes IFRAME_READY is posted once readiness is observed if a frame handle
\* is bound at that moment and destroy() was not called in between (otherwise
\* it is dropped), and the frame gets the bridge's messages in send order.
C8_QueuedPostedIfBound ==
  /\ AllPosted({"ready"})
  /\ InSendOrder

\* three calls before readiness, all posted when it is observed
C8_Witness ==
  /\ Len(sentLog) = 3
  /\ \A k \in 1..3 : sentLog[k].fate = "ready"
  /\ PostedIds = <<"1", "2", "3">>
  /\ bridge.isReady /\ bridge.messageQueue = <<>>

\* C9: while the list given to setAllowedOrigins is not empty, a message from
\* an origin that is not in it reaches no handler, and does not set readiness
\* or flush the queue even when it is IFRAME_READY.
C9_ForeignOriginIgnored ==
  [][ (/\ lastOp'.op = "windowMessage"
       /\ bridge.allowedOrigins # {}
       /\ lastOp'.event.origin \notin bridge.allowedOrigins)
      => /\ lastOp'.handler = "none"
         /\ bridge' = bridge
         /\ toFrame' = toFrame
    ]_vars

\* a well-formed IFRAME_READY from a foreign origin arrived at a bridge that
\* waits for readiness with a message queued and a handler registered
C9_Witness ==
  /\ lastOp.op = "windowMessage"
  /\ lastOp.event.origin = ForeignOrigin
  /\ lastOp.event.data = Envelope("IFRAME_READY", "msg", 1, NoPayload)
  /\ bridge.allowedOrigins = {FrameOrigin}
  /\ ~bridge.isReady /\ bridge.messageQueue # <<>> /\ bridge.iframeRef
  /\ Has(bridge.messageHandlers, "CONTENT_CHANGED")

\* C10: a message whose envelope lacks type, messageId or timestamp reaches no
\* handler and leaves readiness and the queue as they were, even when its type
\* is IFRAME_READY; the listener returns (what is thrown in it is caught).
C10_MalformedDropped ==
  [][ (/\ lastOp'.op = "windowMessage"
       /\ \/ lastOp'.event.data.type \in {"", Null}
          \/ lastOp'.event.data.messageId \in {"", Null}
          \/ lastOp'.event.data.timestamp = 0)
      => /\ lastOp'.handler = "none"
         /\ bridge' = bridge
         /\ toFrame' = toFrame
         /\ lastOp'.error \in {"none", "caught"}
    ]_vars

\* an IFRAME_READY without messageId arrived from the allowed origin at a
\* bridge that waits for readiness with a message queued
C10_Witness ==
  /\ lastOp.op = "windowMessage"
  /\ lastOp.event = Event(FrameOrigin, Envelope("IFRAME_READY", "", 1, NoPayload))
  /\ ~bridge.isReady /\ bridge.messageQueue # <<>> /\ bridge.iframeRef

\* the message types handleEditorMessage has a case for
AgentTypes ==
  {"EDITOR_READY", "SELECT_ELEMENT", "UPDATE_CONTENT", "ENTER_EDIT_MODE", "EXIT_EDIT_MODE"}

\* the step leaves the page, the agent's mode and selection as they were and
\* posts nothing
AgentInert ==
  /\ dom' = dom
  /\ agent'.isInEditorMode = agent.isInEditorMode
  /\ agent'.selectedElement = agent.selectedElement
  /\ toEditor' = <<>>

\* C11: a message event whose data lacks messageId or timestamp, or whose type
\* is not one the agent knows, changes nothing in the page, leaves the agent's
\* mode and selection as they were and makes the agent post nothing.
C11_MalformedIgnored ==
  [][(/\ lastOp'.op = "message"
      /\ \/ Falsy(lastOp'.event.data.messageId)
         \/ lastOp'.event.data.timestamp = 0
         \/ lastOp'.event.data.type \notin AgentTypes)
     => AgentInert]_vars

\* C12: in a page that is not embedded in a frame no message event and no
\* click changes the page, the agent's selection or mode, or makes the agent
\* post a message.
C12_InactiveOutsideFrame ==
  [][(~agent.embedded /\ lastOp'.op \in {"message", "click"}) => AgentInert]_vars

\* C13: at most one element carries the selection marker, and it is the
\* agent's selectedElement; while a handler replaces the selection the marker
\* of the previous element is removed before the next one is set, so that at
\* no point of the handler two elements are marked.
C13_OneMarker ==
  /\ Cardinality(Marked(dom)) <= 1
  /\ Marked(dom) # {} => Marked(dom) = {agent.selectedElement}
  /\ \A i \in DOMAIN lastOp.marks : Cardinality(lastOp.marks[i]) <= 1

\* B was selected while A was selected
C13_Witness ==
  /\ Len(lastOp.marks) = 3
  /\ \E a, b \in Elements :
       a # b /\ lastOp.marks[1] = {a} /\ lastOp.marks[2] = {} /\ lastOp.marks[3] = {b}
  /\ Marked(dom) = {agent.selectedElement}

\* the last step handled a message event that the listener passed on
HandledUpdate(ag, ev) ==
  /\ ag.constructed
  /\ agentAccepts(ag, ev)
  /\ ev.data.type = "UPDATE_CONTENT"

\* C14: handling UPDATE_CONTENT(elementId, s), s a string, for an existing
\* element of kind text sets the text content of that element to s, changes no
\* other element and posts exactly one CONTENT_CHANGED with that elementId and
\* newContent = s.
C14_TextUpdateReportedOnce ==
  [][(/\ lastOp'.op = "message"
      /\ HandledUpdate(agent, lastOp'.event)
      /\ TypeOf(lastOp'.event.data.payload.content) = "string"
      /\ lastOp'.event.data.payload.elementId \in DOMAIN dom
      /\ ElementType(dom[lastOp'.event.data.payload.elementId]) = "text")
     => LET p == lastOp'.event.data.payload
        IN /\ dom' = [dom EXCEPT ![p.elementId].textContent = p.content]
           /\ Len(toEditor') = 1
           /\ toEditor'[1].data.type = "CONTENT_CHANGED"
           /\ toEditor'[1].data.payload.elementId = p.elementId
           /\ toEditor'[1].data.payload.content = p.content]_vars

\* the value a block shows: the src of an image, the text of any other block
AppliedValue(el) == IF ElementType(el) = "image" THEN el.src ELSE el.textContent

\* C15: every UPDATE_CONTENT command an embedded agent handles, whatever its
\* elementId and content (string, boolean or number), is followed by one
\* CONTENT_CHANGED that carries the elementId and the value the element now has.
C15_UpdateAlwaysConfirmed ==
  [][(/\ agent.embedded
      /\ lastOp'.op = "message"
      /\ HandledUpdate(agent, lastOp'.event))
     => LET p == lastOp'.event.data.payload
        IN /\ Len(toEditor') = 1
           /\ toEditor'[1].data.type = "CONTENT_CHANGED"
           /\ toEditor'[1].data.payload.elementId = p.elementId
           /\ p.elementId \in DOMAIN dom'
           /\ ToStr(toEditor'[1].data.payload.content) = AppliedValue(dom'[p.elementId])]_vars

\* the load that just completed read for block k a persisted value with these fields
LoadedBlock(k, publishedValue, draftValue) ==
  /\ lastOp.op = "loadOk"
  /\ k \in DOMAIN lastOp.loaded
  /\ ~lastOp.loaded[k].isString
  /\ lastOp.loaded[k].publishedValue = publishedValue
  /\ lastOp.loaded[k].draftValue = draftValue

\* C16: after the load of a persisted block with publishedValue "Hello",
\* draftValue "Hello there" and hasUnpublishedChanges true, the Draft map has
\* an entry for the block with oldValue "Hello" and newValue "Hello there", and
\* the Original and Published maps both hold "Hello" for it.
C16_PublishedAndDraftImported ==
  \A k \in Elements :
    (LoadedBlock(k, "Hello", "Hello there") /\ lastOp.loaded[k].hasUnpublishedChanges)
    => /\ Has(store.draftChanges, k)
       /\ store.draftChanges[k].oldValue = "Hello"
       /\ store.draftChanges[k].newValue = "Hello there"
       /\ Has(store.originalContent, k) /\ store.originalContent[k] = "Hello"
       /\ Has(store.publishedContent, k) /\ store.publishedContent[k] = "Hello"

\* C17: after the load of a persisted block that has only the draft value
\* "New" and was never published, the Original map holds the empty string for
\* the block and the Draft map an entry whose newValue is "New".
C17_DraftOnlyImported ==
  \A k \in Elements :
    LoadedBlock(k, Null, "New")
    => /\ Has(store.originalContent, k) /\ store.originalContent[k] = EmptyText
       /\ Has(store.draftChanges, k) /\ store.draftChanges[k].newValue = "New"

\* save requests awaiting their response: the timer's and the publish panel's
SavesInFlight == net.saves + (IF net.publish = "saving" THEN 1 ELSE 0)

\* C18: when the saveDraft that a publish action awaits fails, the action
\* ends there: no publish request is issued, markDraftsPublished and
\* clearEditor are not called (the store changes in isSaving only), so that
\* hasUnpublishedChanges, the Draft map and History stay as they were.
C18_FailedSaveAbortsPublish ==
  [][lastOp'.op = "publishSaveFail"
     => /\ net'.publish = "idle"
        /\ store' = [store EXCEPT !.isSaving = FALSE]
        /\ store'.hasUnpublishedChanges = store.hasUnpublishedChanges
        /\ store'.draftChanges = store.draftChanges
        /\ store'.history = store.history]_vars

\* a publish was aborted by its save and the drafts are still unpublished
C18_Witness ==
  /\ lastOp.op = "publishSaveFail"
  /\ net.publish = "idle"
  /\ store.hasUnpublishedChanges /\ store.hasUnsavedEdits
  /\ DOMAIN store.draftChanges # {}
  /\ Len(store.history.present) > 0

\* C19: never are two save requests of the session awaiting their response.
C19_OneSaveInFlight == SavesInFlight <= 1

\* C20: markDraftsPublished sets the Published map entry of every element of
\* the Draft map to the newValue of its draft and clears hasUnpublishedChanges;
\* the Draft map, the Original map, History and hasUnsavedEdits stay as they are.
C20_PublishCopiesDrafts ==
  [][lastOp'.op = "markDraftsPublished"
     => /\ \A e \in DOMAIN store.draftChanges :
             /\ Has(store'.publishedContent, e)
             /\ store'.publishedContent[e] = store.draftChanges[e].newValue
        /\ ~store'.hasUnpublishedChanges
        /\ store'.draftChanges = store.draftChanges
        /\ store'.originalContent = store.originalContent
        /\ store'.history = store.history
        /\ store'.hasUnsavedEdits = store.hasUnsavedEdits]_vars

\* drafts with a history, some of them unsaved, were marked published
C20_Witness ==
  /\ lastOp.op = "markDraftsPublished"
  /\ ~store.hasUnpublishedChanges
  /\ store.hasUnsavedEdits
  /\ Cardinality(DOMAIN store.draftChanges) > 1
  /\ \A e \in DOMAIN store.draftChanges :
       store.publishedContent[e] = store.draftChanges[e].newValue
  /\ \E e \in DOMAIN store.draftChanges :
       store.publishedContent[e] # store.originalContent[e]
  /\ Len(store.history.past) > 0

\* C21: when a change is recorded while a save request awaits its response
\* and that request then succeeds, hasUnsavedEdits is still true.
C21_ChangeDuringSaveStaysUnsaved ==
  [][(net.saves > 0 /\ lastOp.recorded /\ lastOp'.op = "saveOk")
     => store'.hasUnsavedEdits]_vars

\* C22: a change recorded while loadDraftContent awaits the persistence API
\* survives the completion of the load: its Draft map entry is still there
\* and hasUnsavedEdits is true.
C22_ChangeDuringLoadKept ==
  [][(net.loads > 0 /\ lastOp.recorded /\ track.chain = 1 /\ lastOp'.op = "loadOk")
     => /\ Has(store'.draftChanges, track.c.elementId)
        /\ store'.draftChanges[track.c.elementId].newValue = track.c.newValue
        /\ store'.hasUnsavedEdits]_vars

\* C23: whenever no message is queued or travelling between the editor and
\* the frame and no undo or redo is executing, the newValue of the Draft map
\* entry of every text element of the previewed document is the text that
\* the document shows for it.
C23_DraftMatchesPreview ==
  (Pending = 0 /\ ~store.isExecutingCommand)
    => \A e \in DOMAIN store.draftChanges :
         (e \in DOMAIN dom /\ ElementType(dom[e]) = "text")
           => store.draftChanges[e].newValue = dom[e].textContent

\* C24: once the hook has registered its CONTENT_CHANGED handler, every
\* well-formed CONTENT_CHANGED from an allowed origin that the editor window
\* receives is dispatched to that handler, whatever on/off calls the overlay
\* made for the type (the hook stays mounted in this specification: it never
\* unregisters for good).
C24_StoreHandlerKept ==
  [][(/\ ui.hook
      /\ toEditor # <<>>
      /\ Head(toEditor).data.type = "CONTENT_CHANGED"
      /\ Accepted(bridge, Head(toEditor))
      /\ lastOp'.op = "windowMessage")
     => lastOp'.handler = "store"]_vars

\* C25: after the only change recorded so far (the first edit of its element)
\* has been undone and the frame has handled every message, the previewed
\* element shows the text it had before the edit.
C25_UndoOfFirstEditRestoresPage ==
  (/\ nChanges = 1 /\ track.chain = 2
   /\ Pending = 0
   /\ agent.constructed /\ bridge.isReady)
    => dom[track.c.elementId].textContent = PageText

\* C26: after a save, an undo or redo that rewrites a value of the Draft map
\* leaves the store marked as having unsaved edits (with hasUnsavedEdits false
\* every draft value is the saved one).
C26_UndoAfterSaveMarksUnsaved ==
  [][(/\ store.lastSavedAt # 0
      /\ lastOp'.op \in {"undo", "redo"}
      /\ store'.draftChanges # store.draftChanges)
     => store'.hasUnsavedEdits]_vars

\* C27: a call of undo changes nothing in the store and sends nothing when
\* history.past is empty or isExecutingCommand is set, a call of redo likewise
\* when history.future is empty or isExecutingCommand is set; canUndo and
\* canRedo are true exactly when the call would do something.  (No call
\* finds isExecutingCommand set, undo and redo having no await: that case is
\* taken from the function of the call on the store with the flag set.)
C27_NoOpExactlyWhenCannot ==
  [][/\ lastOp'.op = "undo"
        => /\ (Len(store.history.past) = 0 \/ store.isExecutingCommand)
                => (store' = store /\ lastOp'.sent = <<>> /\ toFrame' = toFrame)
           /\ useCanUndo(store) <=> (store' # store \/ lastOp'.sent # <<>>)
     /\ lastOp'.op = "redo"
        => /\ (Len(store.history.future) = 0 \/ store.isExecutingCommand)
                => (store' = store /\ lastOp'.sent = <<>> /\ toFrame' = toFrame)
           /\ useCanRedo(store) <=> (store' # store \/ lastOp'.sent # <<>>)
     /\ LET s == [store EXCEPT !.isExecutingCommand = TRUE]
        IN /\ undoCalled(s).store = s /\ undoCalled(s).sent = <<>> /\ ~useCanUndo(s)
           /\ redoCalled(s).store = s /\ redoCalled(s).sent = <<>> /\ ~useCanRedo(s)]_vars

\* Ctrl+Z was pressed with nothing left to undo while there is something to redo
C27_Witness ==
  /\ lastOp.op = "undo" /\ lastOp.sent = <<>>
  /\ Len(store.history.past) = 0 /\ Len(store.history.future) > 1
  /\ ~useCanUndo(store) /\ useCanRedo(store)

\* what an UPDATE_CONTENT handed to sendToIframe carries
Carries(message, e, content) ==
  /\ message.type = "UPDATE_CONTENT"
  /\ message.payload.elementId = e
  /\ message.payload.content = content

Timeline(h) == h.past \o <<h.present>> \o h.future

\* C29: a call of undo or redo leaves the concatenation past ++ [present] ++
\* future as it is: only the split point moves, no entry is created, dropped,
\* duplicated or reordered.
C29_UndoRedoKeepTimeline ==
  [][lastOp'.op \in {"undo", "redo"}
     => Timeline(store'.history) = Timeline(store.history)]_vars

\* a redo moved the split point inside a timeline of three entries
C29_Witness ==
  /\ lastOp.op = "redo" /\ lastOp.sent # <<>>
  /\ Len(store.history.past) = 1
  /\ Len(store.history.future) = 1
  /\ store.history.present # Head(store.history.future)

\* C30: every entry of history.past and of history.future is a non-empty
\* list of changes, and so is history.present once a change has been recorded.
C30_EntriesNonEmpty ==
  /\ \A i \in 1..Len(store.history.past) : store.history.past[i] # <<>>
  /\ \A i \in 1..Len(store.history.future) : store.history.future[i] # <<>>
  /\ Len(Timeline(store.history)) > 1 => store.history.present # <<>>

\* C30 as amended: the first entry of past ++ [present] ++ future is the
\* empty present the store starts with (archived into past by the first
\* change, back in present when everything is undone); every other entry is a
\* non-empty list of changes.
C30_OnlyBaselineEmpty ==
  LET t == Timeline(store.history)
  IN /\ t[1] = <<>>
     /\ \A i \in 2..Len(t) : t[i] # <<>>

\* everything was undone: the empty baseline is the present entry again and
\* the entries to redo include one of several changes
C30_Witness ==
  /\ lastOp.op = "undo"
  /\ store.history.past = <<>> /\ store.history.present = <<>>
  /\ Len(store.history.future) > 0
  /\ \E i \in 1..Len(store.history.future) : Len(store.history.future[i]) > 1

\* C31: addContentChange for an element that the Original (the Published) map
\* does not hold sets its entry there to the oldValue of the change; an entry
\* of the Original map, once set, is left as it is by every later
\* addContentChange, undo, redo, save and publish.
C31_BaselineSetOnce ==
  [][lastOp'.op \in {"addContentChange", "undo", "redo", "saveDraft", "saveOk",
                     "saveFail", "markDraftsPublished"}
     => /\ \A e \in DOMAIN store.originalContent :
             /\ Has(store'.originalContent, e)
             /\ store'.originalContent[e] = store.originalContent[e]
        /\ lastOp'.op = "addContentChange"
             => LET c == track'.c
                IN /\ ~Has(store.originalContent, c.elementId)
                        => store'.originalContent[c.elementId] = c.oldValue
                   /\ ~Has(store.publishedContent, c.elementId)
                        => store'.publishedContent[c.elementId] = c.oldValue]_vars

\* a later change of an element whose draft had moved away from its baseline
\* was recorded, after a publish had rewritten the Published map
C31_Witness ==
  /\ lastOp.op = "addContentChange"
  /\ Has(store.originalContent, track.c.elementId)
  /\ track.c.oldValue # store.originalContent[track.c.elementId]
  /\ store.publishedContent[track.c.elementId] # store.originalContent[track.c.elementId]

\* C32: undo removes no entry from the Draft map and leaves the Original and
\* the Published map as they are; redo leaves the Original and the Published
\* map as they are.
C32_UndoRedoKeepMaps ==
  [][/\ lastOp'.op = "undo"
        => /\ DOMAIN store.draftChanges \subseteq DOMAIN store'.draftChanges
           /\ store'.originalContent = store.originalContent
           /\ store'.publishedContent = store.publishedContent
     /\ lastOp'.op = "redo"
        => /\ store'.originalContent = store.originalContent
           /\ store'.publishedContent = store.publishedContent]_vars

\* the only change of an element was undone after it had been published: its
\* draft is still there, back at the baseline, next to the published value
C32_Witness ==
  /\ lastOp.op = "undo"
  /\ \E e \in DOMAIN store.draftChanges :
       /\ store.draftChanges[e].newValue = store.originalContent[e]
       /\ store.publishedContent[e] # store.originalContent[e]

\* C33: every operation that pushes a history entry, addContentChange and
\* addBatchChanges alike, sets hasUnsavedEdits and hasUnpublishedChanges.
C33_PushSetsBothFlags ==
  [][(/\ lastOp'.op \in {"addContentChange", "addBatchChanges"}
      /\ store'.history.past = Append(store.history.past, store.history.present))
     => (store'.hasUnsavedEdits /\ store'.hasUnpublishedChanges)]_vars

\* no message id is posted to the frame twice
PostedOnce == \A i, j \in 1..Len(toFrame) : i # j => PostedIds[i] # PostedIds[j]

\* C34 as stated: the readiness of the bridge never goes from true back to
\* false, and a message passed to sendToIframe is posted at most once (the
\* queue is drained at the first IFRAME_READY, a later one re-sends nothing).
C34_ReadyForGood ==
  [][(bridge.isReady => bridge'.isReady) /\ PostedOnce']_vars

\* C34 as the code has it: only destroy() takes the readiness of the bridge
\* back to false (a later IFRAME_READY sets it again), and a message passed to
\* sendToIframe is posted at most once.
C34_ReadyUntilDestroy ==
  [][/\ (bridge.isReady /\ ~bridge'.isReady) => bridge' = destroy(bridge)
     /\ PostedOnce']_vars

\* a queued message was flushed, another was sent directly, and one more
\* IFRAME_READY has been handled since: each is posted once
C34_Witness ==
  /\ lastOp.op = "windowMessage"
  /\ lastOp.event.data.type = "IFRAME_READY" /\ lastOp.event.origin = FrameOrigin
  /\ ValidStructure(lastOp.event.data)
  /\ bridge.isReady /\ bridge.messageQueue = <<>>
  /\ Len(sentLog) = 2
  /\ sentLog[1].fate = "ready" /\ sentLog[2].fate = "direct"
  /\ PostedIds = <<"1", "2">>

\* the well-formed message events of a type
WellFormed(t) == {ev \in InboundEvents : ev.data.type = t /\ ValidStructure(ev.data)}

\* C35: the bridge holds one handler per message type at most.  After
\* on(t, h), whatever was registered for t before, a message of type t invokes
\* h and no other handler; after off(t) it invokes none; the handler is
\* called within the arrival of the message (the same step), an IFRAME_READY
\* having set the readiness and flushed the queue in that step.
C35_OneHandlerPerType ==
  [][/\ lastOp'.op = "on"
        => \A ev \in WellFormed(lastOp'.registered[1]) :
             HandlerFor(bridge', ev) = lastOp'.registered[2]
     /\ lastOp'.op = "off"
        => \A ev \in WellFormed(lastOp'.registered[1]) : HandlerFor(bridge', ev) = "none"
     /\ (lastOp'.op = "windowMessage" /\ Accepted(bridge, lastOp'.event))
        => /\ lastOp'.handler =
                IF Has(bridge.messageHandlers, lastOp'.event.data.type)
                THEN bridge.messageHandlers[lastOp'.event.data.type] ELSE "none"
           /\ lastOp'.event.data.type = "IFRAME_READY"
                => /\ bridge'.isReady /\ bridge'.messageQueue = <<>>
                   /\ bridge.iframeRef
                        => Len(toFrame') = Len(toFrame) + Len(bridge.messageQueue)]_vars

\* with a handler registered for each type, an IFRAME_READY arrived, flushed
\* two queued messages and was handed to the handler registered for it
C35_Witness ==
  /\ lastOp.op = "windowMessage"
  /\ lastOp.event.data.type = "IFRAME_READY"
  /\ lastOp.handler = "other"
  /\ Len(toFrame) = 2 /\ Len(sentLog) = 2
  /\ sentLog[1].fate = "ready" /\ sentLog[2].fate = "ready"
  /\ Has(bridge.messageHandlers, "CONTENT_CHANGED")
  /\ bridge.messageHandlers["CONTENT_CHANGED"] = "client"


\* the step that just happened ends editing in place: a blur, Enter without
\* Shift, or an EXIT_EDIT_MODE the listener passed on
EndsInlineEdit ==
  \/ lastOp'.op \in {"blur", "enter"}
  \/ /\ lastOp'.op = "message"
     /\ agentAccepts(agent, lastOp'.event)
     /\ lastOp'.event.data.type = "EXIT_EDIT_MODE"

\* the step that just happened handled ENTER_EDIT_MODE for a block that is
\* not of kind text
EntersNonText ==
  /\ lastOp'.op = "message"
  /\ agentAccepts(agent, lastOp'.event)
  /\ lastOp'.event.data.type = "ENTER_EDIT_MODE"
  /\ LET e == lastOp'.event.data.payload.elementId
     IN e \in DOMAIN dom => ElementType(dom[e]) # "text"

\* the CONTENT_CHANGED messages among out that are about block e
ReportsOf(out, e) ==
  {i \in DOMAIN out : out[i].data.type = "CONTENT_CHANGED" /\ out[i].data.payload.elementId = e}

\* C36: a blur, Enter without Shift or EXIT_EDIT_MODE takes every block that
\* ENTER_EDIT_MODE put into inline-edit state out of it and posts exactly one
\* CONTENT_CHANGED for it with its final text; with no block in inline-edit
\* state EXIT_EDIT_MODE posts nothing; ENTER_EDIT_MODE for a block that is not
\* of kind text changes nothing.
C36_InlineCommitReportedOnce ==
  [][/\ EndsInlineEdit =>
          /\ InlineEdited(dom') = {}
          /\ \A e \in InlineEdited(dom) :
               /\ Cardinality(ReportsOf(toEditor', e)) = 1
               /\ \A i \in ReportsOf(toEditor', e) :
                    toEditor'[i].data.payload.content = dom[e].textContent
          /\ InlineEdited(dom) = {} => toEditor' = <<>>
     /\ EntersNonText => (dom' = dom /\ toEditor' = <<>>)]_vars


\* What is still to be delivered: a command to the frame (queued or posted) is
\* answered by at most two reports (ENTER_EDIT_MODE can end the editing of
\* another block), a report by no command.
InTransit == 3 * (Len(bridge.messageQueue) + Len(toFrame)) + Len(toEditor)

\* C37: the delivery of a CONTENT_CHANGED report to the editor posts and
\* queues no command for the frame, and every delivery of a message, on
\* either side, leaves strictly less to deliver: after the last user action
\* (edit, commit in place, undo, redo) the messages in transit run out.
C37_DeliveriesRunOut ==
  [][/\ (lastOp'.op = "windowMessage" /\ Head(toEditor).data.type = "CONTENT_CHANGED")
          => (toFrame' = toFrame /\ bridge'.messageQueue = bridge.messageQueue)
     /\ lastOp'.op \in {"windowMessage", "agentReceive"} => InTransit' < InTransit]_vars

\* a report of the frame has been recorded in the store after an edit in
\* place, and nothing is in transit
C37_Witness ==
  /\ lastOp.op = "windowMessage" /\ lastOp.recorded /\ lastOp.cause = "exit"
  /\ toFrame = <<>> /\ toEditor = <<>> /\ bridge.messageQueue = <<>>


\* the blocks of a content file that carry an unpublished draft or have draft
\* status; a block stored as a plain string is a published one
PersistedDrafts(pages) ==
  {k \in DOMAIN pages :
     ~pages[k].isString /\ (pages[k].hasUnpublishedChanges \/ pages[k].status = "draft")}

\* C38: after loadDraftContent succeeds the Draft, Original and Published maps
\* have an entry for exactly the persisted blocks with an unpublished draft or
\* draft status, hasUnsavedEdits is false and hasUnpublishedChanges is true
\* exactly when the Draft map is not empty.
C38_LoadImportsExactlyDrafts ==
  lastOp.op = "loadOk"
  => /\ DOMAIN store.draftChanges = PersistedDrafts(lastOp.loaded)
     /\ DOMAIN store.originalContent = PersistedDrafts(lastOp.loaded)
     /\ DOMAIN store.publishedContent = PersistedDrafts(lastOp.loaded)
     /\ ~store.hasUnsavedEdits
     /\ store.hasUnpublishedChanges = (DOMAIN store.draftChanges # {})


\* C39: saveDraft called without unsaved edits issues no request and changes
\* nothing in the store; when the save request fails the error is thrown to
\* the caller, hasUnsavedEdits and lastSavedAt are as they were (a flag that
\* was true stays true) and isSaving is false again.
C39_SaveDraftNoOpAndFailure ==
  [][/\ (lastOp'.op = "saveDraft" /\ ~store.hasUnsavedEdits)
          => (store' = store /\ net' = net)
     /\ lastOp'.op = "saveFail"
          => /\ lastOp'.error = "thrown"
             /\ store'.hasUnsavedEdits = store.hasUnsavedEdits
             /\ store'.lastSavedAt = store.lastSavedAt
             /\ store'.draftChanges = store.draftChanges
             /\ ~store'.isSaving]_vars

\* a save request failed after an earlier one had succeeded: the edits made
\* since are still unsaved and the time of the earlier save stands
C39_Witness ==
  /\ lastOp.op = "saveFail" /\ lastOp.error = "thrown"
  /\ store.hasUnsavedEdits /\ store.lastSavedAt = 1 /\ ~store.isSaving
  /\ net.saves = 0


\* C40: a message event whose origin is not the editor's origin makes the
\* agent apply no command, whether or not a message of the editor has been
\* seen before: the page, the selection and the mode stay as they were and
\* nothing is posted.
C40_ForeignCommandsIgnored ==
  [][(lastOp'.op = "message" /\ lastOp'.event.origin # EditorOrigin) => AgentInert]_vars

====
